---------------------------- MODULE Spec2Model ----------------------------
(***************************************************************************)
(* Link-integrity checker of yourwebsquad-toolkit (the link-check script   *)
(* stored in scripts/jsonld-validate.mjs, lines 273-867): URL              *)
(* normalisation, the page list (URL list, sitemap, frontier crawl), the   *)
(* memoised resource checker (HEAD with GET fallback) and the audit loop   *)
(* of main() with its verdict; and the command table of src/cli/run-cli.   *)
(*                                                                         *)
(* Spec is a run of the link check that crawls, ListedSpec a run with a    *)
(* URL list and a sitemap, CrawlSpec a crawl of a site whose start page    *)
(* links to two pages, AnyOrderSpec that crawl with the frontier taken in  *)
(* any order, HelperSpec applies normalizeUrl, isInternal and the anchor   *)
(* callback to a string, CliSpec applies runCli to a command line,         *)
(* QualitySpec is a run of the quality suite (scripts/run-quality-         *)
(* suite.mjs), RemoteSpec a run of its remote sitemap reader,              *)
(* GeneratorSpec a run of the page generator (scripts/newpage.mjs).        *)
(*                                                                         *)
(* A URL string is a sequence of tokens.  An origin token stands for       *)
(* "scheme://host"; "/", "a", "b" are path characters; "?q" opens a query  *)
(* and "#f" a fragment.  String prefix is prefix of token sequences.       *)
(***************************************************************************)
EXTENDS Integers, Sequences, FiniteSets, TLC

\* ----------------------------------------------------------------------
\* Strings
\* ----------------------------------------------------------------------
SITE == "http://site"
EXT == "https://ext"
BADABS == "http://["
BADREL == "//["
MAILTO == "mailto:"
TEL == "tel:"
SLASH == "/"
QMARK == "?q"
HASH == "#f"
EN == "en"
FR == "fr"

Origins == {SITE, EXT}
FAIL == [threw |-> TRUE]

StartsWith(s, p) == Len(p) <= Len(s) /\ SubSeq(s, 1, Len(p)) = p

EndsWithSlash(p) == Len(p) > 0 /\ p[Len(p)] = SLASH

\* index of the first token of s at or after i that is in stops; Len(s)+1 if none
RECURSIVE FirstAt(_, _, _)
FirstAt(s, i, stops) ==
  IF i > Len(s) THEN Len(s) + 1
  ELSE IF s[i] \in stops THEN i
  ELSE FirstAt(s, i + 1, stops)

\* p without its trailing "/" tokens: pathname.replace(/\/+$/, "")
RECURSIVE StripTrailingSlashes(_)
StripTrailingSlashes(p) ==
  IF EndsWithSlash(p) THEN StripTrailingSlashes(SubSeq(p, 1, Len(p) - 1)) ELSE p

\* the components of s from position i on: path, query, hash
PathOf(s, i) == SubSeq(s, i, FirstAt(s, i, {QMARK, HASH}) - 1)
QueryOf(s, i) ==
  LET q == FirstAt(s, i, {QMARK, HASH})
  IN IF q <= Len(s) /\ s[q] = QMARK THEN SubSeq(s, q, FirstAt(s, q, {HASH}) - 1) ELSE <<>>
HashOf(s, i) == SubSeq(s, FirstAt(s, i, {HASH}), Len(s))

\* new URL(s): throws unless s is absolute with a valid host; an empty path
\* of an http(s) URL becomes "/"; a mailto: or tel: URL has an opaque path
\* unless its path starts with "/"
ParseUrl(s) ==
  IF Len(s) = 0 THEN FAIL
  ELSE IF s[1] \in {MAILTO, TEL}
  THEN [threw |-> FALSE,
        origin |-> <<s[1]>>,
        pathname |-> PathOf(s, 2),
        search |-> QueryOf(s, 2),
        hash |-> HashOf(s, 2),
        opaque |-> ~(Len(s) >= 2 /\ s[2] = SLASH)]
  ELSE IF s[1] \notin Origins THEN FAIL
  ELSE LET h == FirstAt(s, 2, {SLASH, QMARK, HASH})
           p == PathOf(s, h)
       IN [threw |-> FALSE,
           origin |-> SubSeq(s, 1, h - 1),
           pathname |-> IF p = <<>> THEN <<SLASH>> ELSE p,
           search |-> QueryOf(s, h),
           hash |-> HashOf(s, h),
           opaque |-> FALSE]

\* URL.prototype.toString()
UrlToString(u) == u.origin \o u.pathname \o u.search \o u.hash

\* the pathname setter: without effect on an opaque path; an empty path of
\* an http(s) URL is "/"
SetPathname(u, p) ==
  IF u.opaque THEN u
  ELSE [u EXCEPT !.pathname = IF p = <<>> /\ u.origin[1] \in Origins THEN <<SLASH>> ELSE p]

\* as normalizeUrl, but the query is removed with the fragment
normalizeUrlDropsQuery(url) ==
  LET u == ParseUrl(url)
  IN IF u.threw THEN url
     ELSE LET v == [u EXCEPT !.hash = <<>>, !.search = <<>>]
              w == IF Len(v.pathname) > 1 /\ EndsWithSlash(v.pathname)
                   THEN SetPathname(v, StripTrailingSlashes(v.pathname))
                   ELSE v
          IN UrlToString(w)

\* as normalizeUrl, but only one trailing "/" is removed from the path
normalizeUrlStripsOne(url) ==
  LET u == ParseUrl(url)
  IN IF u.threw THEN url
     ELSE LET v == [u EXCEPT !.hash = <<>>]
              w == IF Len(v.pathname) > 1 /\ EndsWithSlash(v.pathname)
                   THEN SetPathname(v, SubSeq(v.pathname, 1, Len(v.pathname) - 1))
                   ELSE v
          IN UrlToString(w)

normalizeUrl(url) ==
  LET u == ParseUrl(url)
  IN IF u.threw THEN url
     ELSE LET v == [u EXCEPT !.hash = <<>>]
              w == IF Len(v.pathname) > 1 /\ EndsWithSlash(v.pathname)
                   THEN SetPathname(v, StripTrailingSlashes(v.pathname))
                   ELSE v
          IN UrlToString(w)

\* the directory of a pathname: everything up to and including its last "/"
RECURSIVE DirOf(_)
DirOf(p) ==
  IF p = <<>> THEN <<SLASH>>
  ELSE IF EndsWithSlash(p) THEN p
  ELSE DirOf(SubSeq(p, 1, Len(p) - 1))

\* new URL(href, base).toString() for an href that does not start with "http"
ResolveUrl(href, base) ==
  LET b == ParseUrl(base)
  IN IF b.threw \/ (Len(href) > 0 /\ href[1] = BADREL) THEN FAIL
     ELSE IF Len(href) > 0 /\ href[1] \in {MAILTO, TEL} THEN [threw |-> FALSE, str |-> href]
     ELSE LET p == PathOf(href, 1)
              q == QueryOf(href, 1)
              f == HashOf(href, 1)
              r == IF p = <<>>
                   THEN [b EXCEPT !.search = IF q = <<>> THEN b.search ELSE q, !.hash = f]
                   ELSE IF p[1] = SLASH
                   THEN [b EXCEPT !.pathname = p, !.search = q, !.hash = f]
                   ELSE [b EXCEPT !.pathname = DirOf(b.pathname) \o p, !.search = q, !.hash = f]
          IN [threw |-> FALSE, str |-> UrlToString(r)]

\* new URL(u, base).toString() for any u: the base is not used when u is
\* written as an absolute URL
NewUrl(u, base) ==
  IF Len(u) > 0 /\ u[1] \in (Origins \cup {BADABS})
  THEN IF ParseUrl(u).threw THEN FAIL
       ELSE [threw |-> FALSE, str |-> UrlToString(ParseUrl(u))]
  ELSE ResolveUrl(u, base)

\* the order of Array.prototype.sort() on strings (UTF-16 code units)
Rank(t) ==
  CASE t = HASH -> 1
    [] t = SLASH -> 2
    [] t = QMARK -> 3
    [] t = "a" -> 4
    [] t = "b" -> 5
    [] t = EN -> 6
    [] t = FR -> 7
    [] t = BADABS -> 8
    [] t = SITE -> 9
    [] t = EXT -> 10
    [] OTHER -> 11

RECURSIVE StrLess(_, _)
StrLess(s, t) ==
  IF t = <<>> THEN FALSE
  ELSE IF s = <<>> THEN TRUE
  ELSE IF Rank(Head(s)) # Rank(Head(t)) THEN Rank(Head(s)) < Rank(Head(t))
  ELSE StrLess(Tail(s), Tail(t))

\* ----------------------------------------------------------------------
\* Bounds and inputs
\* ----------------------------------------------------------------------
MaxAnchors == 2
MaxFaults == 2
MaxLen == 4

\* anchors that a page of the site may carry, in document order
HrefLists ==
  { <<>>,
    << <<SLASH, "a", SLASH>>, <<SLASH, "a", HASH>>, <<SLASH>> >>,
    << <<SITE, SLASH, "a", HASH>>, <<EXT, SLASH, "a">>, <<SLASH, "a", QMARK>> >>,
    << <<EXT, SLASH, "a">>, <<EXT, SLASH, "a", HASH>>, <<EXT, SLASH, "a", SLASH>> >>,
    << <<SLASH>>, <<BADABS>>, <<SLASH, "b">> >>,
    << <<MAILTO>>, <<TEL>>, <<"b">> >>,
    << <<HASH>>, <<>>, <<BADREL>> >> }

Prefix(l, n) == SubSeq(l, 1, IF Len(l) < n THEN Len(l) ELSE n)

AnchorLists == { Prefix(l, MaxAnchors) : l \in HrefLists }

\* the requests the site answers with a page of its own
PageKeys == { <<SITE, SLASH>>, <<SITE, SLASH, "a">> }

PageContents ==
  { [html |-> TRUE, anchors |-> l] : l \in AnchorLists }
    \cup { [html |-> FALSE, anchors |-> <<>>] }

Sites == [PageKeys -> PageContents]

BaseUrls == { <<SITE>>, <<SITE, SLASH>> }

\* the strings given to the URL helpers: any token first, then path, query
\* and fragment characters; "//" opens a host only in the tokens that
\* stand for it (the origins, BADABS, BADREL)
UrlChars == {SLASH, "a", "b", QMARK, HASH}
UrlHeads == {SITE, EXT, BADABS, BADREL, MAILTO, TEL} \cup UrlChars
UrlTails == UNION { [1..n -> UrlChars] : n \in 0..(MaxLen - 1) }
UrlStrings ==
  { s \in { <<>> } \cup { <<h>> \o t : h \in UrlHeads, t \in UrlTails } :
      /\ ~(Len(s) >= 3 /\ s[1] \in {MAILTO, TEL} /\ s[2] = SLASH /\ s[3] = SLASH)
      /\ ~(Len(s) >= 2 /\ s[1] = SLASH /\ s[2] = SLASH) }

\* base URLs of a run: the site root, with or without "/", and a directory
HelperBaseUrls == BaseUrls \cup { <<SITE, SLASH, "a">>, <<SITE, SLASH, "a", SLASH>> }

\* what --urls-file names: nothing (the option is not given), a file that
\* cannot be read as a JSON array, or a JSON array of entries
NoUrlsFile == [given |-> FALSE, array |-> FALSE, entries |-> <<>>]
UrlsFiles ==
  { NoUrlsFile, [given |-> TRUE, array |-> FALSE, entries |-> <<>>] } \cup
  { [given |-> TRUE, array |-> TRUE, entries |-> e] :
      e \in { << <<SLASH, "a", SLASH>>, <<SITE, SLASH, HASH>> >>,
              << <<BADABS>> >>,
              << <<BADREL>>, <<"b">> >> } }

\* build/sitemap-0.xml or build/sitemap.xml: absent, or its <loc> texts
NoSitemap == [present |-> FALSE, locs |-> <<>>]
Sitemaps ==
  { NoSitemap } \cup
  { [present |-> TRUE, locs |-> l] :
      l \in { << <<EXT, SLASH, EN, SLASH>>, <<EXT, SLASH, "a">>, <<EXT, SLASH, FR>>,
                 <<EXT, SLASH, EN>> >>,
              << <<EXT, SLASH, "a">>, <<SLASH, EN>> >> } }

\* the pages of the build directory, as paths without leading and trailing
\* "/": build/en/index.html exists, build/fr/index.html does not
BuildFiles == { <<EN>>, <<EN, SLASH, "a">> }

Statuses == {200, 304, 404, 405}

\* what a server does with a request: it answers with a status, drops the
\* connection, or never answers
Responses == { [kind |-> "response", status |-> st] : st \in Statuses }
ServerAnswers == Responses \cup { [kind |-> "reset"], [kind |-> "silent"] }

\* the messages of a failed and of an aborted fetch()
ErrorMessages == {"fetch failed", "This operation was aborted"}

\* fetchWithTimeout: the response, or a rejection; the abort signal fires
\* when the server has not answered in time
fetchWithTimeout(answer) ==
  CASE answer.kind = "reset" -> [kind |-> "error", message |-> "fetch failed"]
    [] answer.kind = "silent" -> [kind |-> "error", message |-> "This operation was aborted"]
    [] OTHER -> answer

NoRequest == [kind |-> "none"]

\* Response.ok
ResponseOk(status) == status >= 200 /\ status <= 299

UNDEF == <<"undefined">>

\* ----------------------------------------------------------------------
\* The command line interface (src/cli/run-cli.mjs)
\* ----------------------------------------------------------------------
Script(path) == [kind |-> "script", path |-> path]

COMMANDS ==
  [clean |-> Script("scripts/clean.mjs"),
   quality |-> [kind |-> "group",
                subs |-> [run |-> "scripts/run-quality-suite.mjs",
                          a11y |-> "scripts/pa11y-crawl-and-test.mjs",
                          seo |-> "scripts/seo-audit.mjs",
                          links |-> "scripts/link-check.mjs",
                          jsonld |-> "scripts/jsonld-validate.mjs",
                          comment |-> "scripts/post-quality-comment.mjs"]],
   update |-> [kind |-> "group",
               subs |-> [components |-> "scripts/update-components.mjs",
                         toolkit |-> "scripts/update-toolkit.mjs"]]]

NoScript == "null"

\* resolveScript; subCommand is <<>> when it is undefined
resolveScript(mainCommand, subCommand) ==
  IF mainCommand \notin DOMAIN COMMANDS THEN NoScript
  ELSE LET selected == COMMANDS[mainCommand]
       IN IF selected.kind = "script" THEN selected.path
          ELSE IF subCommand = <<>> THEN NoScript
          ELSE IF subCommand[1] \in DOMAIN selected.subs THEN selected.subs[subCommand[1]]
          ELSE NoScript

\* the commands of the README, section "Available commands"
ReadmeCommands ==
  { <<"format">>, <<"clean">>, <<"scaffold", "newpage">> }
    \cup { <<"quality", sub>> :
             sub \in {"run", "a11y", "seo", "links", "jsonld", "security", "comment"} }
    \cup { <<"update", sub>> : sub \in {"components", "toolkit"} }

\* the words of a command line
CliWords ==
  {"-h", "--help", "--check", "format", "clean", "scaffold", "newpage", "quality",
   "run", "a11y", "seo", "links", "jsonld", "security", "comment", "update",
   "components", "toolkit", "deploy"}

MaxArgs == 2

Argvs == UNION { [1..n -> CliWords] : n \in 0..MaxArgs }

\* the exit status of a script or of the formatter
ChildStatuses == {0, 1}

NotRun == [ran |-> "nothing", script |-> NoScript, args |-> <<>>, exit |-> 0]

\* ----------------------------------------------------------------------
\* The quality suite (scripts/run-quality-suite.mjs)
\* ----------------------------------------------------------------------
TEST_CHOICES == {"all", "lighthouse", "pa11y", "seo", "links", "jsonld", "security"}

\* the checks, in the order in which main() calls runStep for them
StepKeys == <<"lighthouse", "pa11y", "seo", "links", "jsonld", "security">>

StepNames ==
  [lighthouse |-> "Lighthouse", pa11y |-> "Accessibility (Pa11y)", seo |-> "SEO audit",
   links |-> "Link check", jsonld |-> "JSON-LD validation", security |-> "Security audit"]

StepScripts ==
  [lighthouse |-> "lighthouse-audit.mjs", pa11y |-> "pa11y-crawl-and-test.mjs",
   seo |-> "seo-audit.mjs", links |-> "link-check.mjs", jsonld |-> "jsonld-validate.mjs",
   security |-> "security-audit.mjs"]

choiceToFlags(choice) ==
  [k \in {StepKeys[i] : i \in DOMAIN StepKeys} |-> choice = "all" \/ choice = k]

\* the targets that have a base URL (the others are disabled)
Configurations ==
  { {"development"}, {"development", "staging"}, {"development", "staging", "production"},
    {"staging", "production"} }

getTargetChoices(configured) ==
  [development |-> [key |-> "development", usesLocalBuild |-> TRUE,
                    disabled |-> "development" \notin configured],
   staging |-> [key |-> "staging", usesLocalBuild |-> FALSE,
                disabled |-> "staging" \notin configured],
   production |-> [key |-> "production", usesLocalBuild |-> FALSE,
                   disabled |-> "production" \notin configured]]

\* --base and --target of the command line; "none" when the flag is absent
CliOptions ==
  { [base |-> b, target |-> t] :
      b \in {"none", "url", "invalid"},
      t \in {"none", "development", "staging", "production", "qa"} }

NoTarget == [key |-> "null", usesLocalBuild |-> FALSE, disabled |-> TRUE]

\* promptForTarget; answer is the entry chosen in the list prompt; the
\* result is NoTarget when it throws
promptForTarget(options, configured, answer) ==
  LET byKey == getTargetChoices(configured)
  IN IF options.base # "none"
     THEN IF options.base = "invalid" THEN NoTarget
          ELSE [key |-> "custom", usesLocalBuild |-> FALSE, disabled |-> FALSE]
     ELSE IF options.target # "none"
     THEN IF options.target \notin DOMAIN byKey THEN NoTarget
          ELSE IF byKey[options.target].disabled THEN NoTarget
          ELSE byKey[options.target]
     ELSE byKey[answer]

\* the exit code that runCommand resolves with: <<>> is null, the code of
\* a child that a signal killed
ExitCodes == {<<0>>, <<1>>, <<>>}

\* what the sub-process left in the report directory of its check
StatsFiles == {"none", "clean", "errors"}

\* result?.exitCode && result.exitCode !== 0
exitedNonZero(code) == code # <<>> /\ code # <<0>>

\* the value of `failed` that the function of a step returns
stepFailed(key, code, stats) ==
  IF key = "jsonld" THEN exitedNonZero(code)
  ELSE IF key = "security"
  THEN IF stats # "none" THEN stats = "errors" ELSE exitedNonZero(code)
  ELSE stats = "errors" \/ exitedNonZero(code)

stepEnabledWhateverTarget(key, checks, target) == checks[key]

\* the third argument of runStep
stepEnabled(key, checks, target) ==
  IF key = "jsonld" THEN checks[key] /\ target.usesLocalBuild ELSE checks[key]

\* the outcomes of the function of a step: the sub-process ends with a code
\* and leaves its statistics or not, or the function throws, before or
\* after it started the sub-process
StepOutcomes(key) ==
  { [crashed |-> FALSE, started |-> TRUE, code |-> c, stats |-> st] :
      c \in ExitCodes, st \in (IF key = "jsonld" THEN {"none"} ELSE StatsFiles) }
    \cup { [crashed |-> TRUE, started |-> b, code |-> <<>>, stats |-> "none"] :
             b \in BOOLEAN }

Uneventful(o) == ~o.crashed /\ o.code = <<0>> /\ o.stats \in {"none", "clean"}

NoChecks == [k \in {StepKeys[i] : i \in DOMAIN StepKeys} |-> FALSE]

\* ----------------------------------------------------------------------
\* The page generator (scripts/newpage.mjs)
\* ----------------------------------------------------------------------
\* what `git status --porcelain` gives: no output, some output, an error
GitStatuses == {"clean", "dirty", "error"}

ensureCleanGitNeverExits(status) == TRUE

\* ensureCleanGit: TRUE when it returns, FALSE when it ends the process
\* with process.exit(1)
ensureCleanGit(status) == status = "clean"

\* the answers of promptConfig that main() branches on
Answers ==
  [routeType : {"segment", "non-segment"}, navPlacement : {"header", "footer", "both", "none"}]

NoAnswers == [routeType |-> "null", navPlacement |-> "null"]

\* the step of main() that follows the segments map
afterSegments(answers) == IF answers.navPlacement # "none" THEN "menu fr" ELSE "content"

\* ----------------------------------------------------------------------
\* State
\* ----------------------------------------------------------------------
VARIABLES
  BASE_URL,        \* args.base ?? DEFAULT_BASE_URL
  skipExternal,    \* args.skipExternal: --skip-external was given
  envCheckExternal, \* process.env.CHECK_EXTERNAL_LINKS
  site,            \* what the server serves for each request
  pc,              \* where main() is suspended
  faults,          \* requests so far that were not answered with 200
  spawned,         \* a static server process was started
  server,          \* main's variable: "null" or "child"
  killed,          \* server.kill("SIGINT") was called
  toVisit,         \* insertion-ordered Set
  visited,         \* insertion-ordered Set
  fetched,         \* URLs requested by crawl(), in order
  crawlLoads,      \* outcome of fetch(url) for each of them, in order
  pages,           \* the audited page list
  pageIdx,         \* index of the page being audited
  pageFetches,     \* outcome of fetch(pageUrl) for each audited page, in order
  links,           \* links of the page being audited
  uniqueUrls,      \* distinct linkUrl of the page being audited
  checkIdx,        \* index into uniqueUrls
  resultsByUrl,    \* per-page Map url -> result
  linkCache,       \* Map normalizedUrl -> result
  probes,          \* requests issued by checkLink(), in order
  pageResults,
  skippedExternal,
  broken,
  written,         \* report files written
  exitCode,
  URLS_FILE,       \* args.urlsFile and the content of the file it names
  sitemap,         \* the sitemap of the build directory
  loaders,         \* the sources of the page list that main() used, in order
  urlInput,        \* the string given to normalizeUrl and isInternal
  normalizations,  \* normalizeUrl(urlInput), normalizeUrl of that, ...
  classified,      \* the value of isInternal(urlInput), once computed
  argv,            \* the arguments given to runCli
  cli,             \* what runCli did with them
  qpc,             \* where main() of the quality suite is
  selectedChecks,
  selectedTarget,
  siteServer,      \* "null", "running" or "killed"
  commands,        \* the commands started with runCommand, in order
  stepResults,     \* what each call of runStep did, in order
  failures,
  processExitCode, \* the exit code of the quality suite
  genpc,           \* where main() of the page generator is
  gitStatus,       \* what ensureCleanGit found; "unchecked" before it ran
  answers,         \* the answers of promptConfig
  prompts,         \* the prompts shown, in order
  fileWrites,      \* the project files written, in order
  genExitCode,     \* the exit code of the page generator
  rpc,             \* where getUrlsFromRemoteSitemap is
  targetUrl,       \* its baseUrl
  remoteWeb,       \* what the remote site answers for each sitemap URL
  candidateIdx,    \* index of the candidate sitemap being loaded
  pendingCall,     \* the call of loadRemoteSitemapUrls about to run, if any
  loadStack,       \* the suspended calls of loadRemoteSitemapUrls
  seenSitemaps,    \* insertion-ordered Set
  sitemapCalls,    \* the calls of loadRemoteSitemapUrls so far, in order
  collected,       \* insertion-ordered Set
  remoteUrls       \* the array that getUrlsFromRemoteSitemap returns

runVars == <<BASE_URL, skipExternal, envCheckExternal, site, pc, faults, spawned,
          server, killed, toVisit, visited, fetched, crawlLoads, pages, pageIdx, pageFetches, links,
          uniqueUrls, checkIdx,
          resultsByUrl, linkCache, probes, pageResults, skippedExternal, broken,
          written, exitCode, URLS_FILE, sitemap, loaders>>

urlVars == <<urlInput, normalizations, classified>>

cliVars == <<argv, cli>>

qualityVars == <<qpc, selectedChecks, selectedTarget, siteServer, commands,
                 stepResults, failures, processExitCode>>

genVars == <<genpc, gitStatus, answers, prompts, fileWrites, genExitCode>>

remoteVars == <<rpc, targetUrl, remoteWeb, candidateIdx, pendingCall, loadStack,
                seenSitemaps, sitemapCalls, collected, remoteUrls>>

toolVars == <<cliVars, qualityVars, genVars, remoteVars>>

vars == <<runVars, urlVars, toolVars>>

config == <<BASE_URL, skipExternal, envCheckExternal, site, URLS_FILE, sitemap>>
crawlVars == <<toVisit, visited, fetched, crawlLoads>>
pageVars == <<links, uniqueUrls, checkIdx, resultsByUrl>>
checkVars == <<linkCache, probes>>

ReportFiles == {"SUMMARY.md", "report.html", "links.json"}

\* ----------------------------------------------------------------------
\* Helpers of the script
\* ----------------------------------------------------------------------
CHECK_EXTERNAL == IF skipExternal THEN FALSE ELSE envCheckExternal # "0"

\* as isInternal, but a URL of the origin of BASE_URL is internal
isInternalSameOrigin(url) ==
  /\ ~ParseUrl(url).threw
  /\ ParseUrl(url).origin = ParseUrl(BASE_URL).origin

isInternal(url) == StartsWith(normalizeUrl(url), normalizeUrl(BASE_URL))

SeqToSet(s) == { s[i] : i \in 1..Len(s) }

\* Set.prototype.add on an insertion-ordered Set
SetAdd(s, x) == IF x \in SeqToSet(s) THEN s ELSE Append(s, x)

\* what the server serves for a URL: the page registered for the request
\* target, an empty HTML page for any other target
Served(url) ==
  LET u == ParseUrl(url)
      key == UrlToString([u EXCEPT !.hash = <<>>])
  IN IF key \in PageKeys THEN site[key] ELSE [html |-> TRUE, anchors |-> <<>>]

StartsWithHttp(href) == Len(href) > 0 /\ href[1] \in {SITE, EXT, BADABS}

\* as hrefToAbsolute, but only an empty href is skipped
hrefToAbsoluteSkipsEmptyOnly(href, pageUrl) ==
  IF href = <<>> THEN [skip |-> TRUE]
  ELSE IF StartsWithHttp(href) THEN [skip |-> FALSE, absolute |-> href]
  ELSE LET r == ResolveUrl(href, pageUrl)
       IN IF r.threw THEN [skip |-> TRUE] ELSE [skip |-> FALSE, absolute |-> r.str]

\* the anchor filter and resolution shared by crawl() and main():
\* skip or the absolute URL string
hrefToAbsolute(href, pageUrl) ==
  IF href = <<>> THEN [skip |-> TRUE]
  ELSE IF href[1] \in {MAILTO, TEL, HASH} THEN [skip |-> TRUE]
  ELSE IF StartsWithHttp(href) THEN [skip |-> FALSE, absolute |-> href]
  ELSE LET r == ResolveUrl(href, pageUrl)
       IN IF r.threw THEN [skip |-> TRUE] ELSE [skip |-> FALSE, absolute |-> r.str]

\* as crawlAnchors, but visited is not consulted before toVisit.add
RECURSIVE crawlAnchorsIgnoresVisited(_, _, _, _, _)
crawlAnchorsIgnoresVisited(anchors, i, url, tv, vs) ==
  IF i > Len(anchors) THEN tv
  ELSE LET a == hrefToAbsolute(anchors[i], url)
       IN IF a.skip \/ ~isInternal(a.absolute)
          THEN crawlAnchorsIgnoresVisited(anchors, i + 1, url, tv, vs)
          ELSE crawlAnchorsIgnoresVisited(anchors, i + 1, url,
                                          SetAdd(tv, normalizeUrl(a.absolute)), vs)

\* the $("a[href]").each callback of crawl(), applied to anchors i..
RECURSIVE crawlAnchors(_, _, _, _, _)
crawlAnchors(anchors, i, url, tv, vs) ==
  IF i > Len(anchors) THEN tv
  ELSE LET a == hrefToAbsolute(anchors[i], url)
           normalized == normalizeUrl(a.absolute)
       IN IF a.skip \/ ~isInternal(a.absolute)
          THEN crawlAnchors(anchors, i + 1, url, tv, vs)
          ELSE IF normalized \notin SeqToSet(vs) /\ normalized \notin SeqToSet(tv)
          THEN crawlAnchors(anchors, i + 1, url, Append(tv, normalized), vs)
          ELSE crawlAnchors(anchors, i + 1, url, tv, vs)

\* the $("a[href]").each callback of main(), applied to anchors i..
RECURSIVE extractLinks(_, _, _)
extractLinks(anchors, i, pageUrl) ==
  IF i > Len(anchors) THEN <<>>
  ELSE LET a == hrefToAbsolute(anchors[i], pageUrl)
           normalized == normalizeUrl(a.absolute)
       IN IF a.skip THEN extractLinks(anchors, i + 1, pageUrl)
          ELSE << [linkUrl |-> normalized,
                   isExternal |-> ~isInternal(normalized),
                   selector |-> i] >> \o extractLinks(anchors, i + 1, pageUrl)

\* Array.from(new Set(links.map((l) => l.linkUrl)))
RECURSIVE uniqueOf(_, _)
uniqueOf(ls, acc) ==
  IF ls = <<>> THEN acc ELSE uniqueOf(Tail(ls), SetAdd(acc, Head(ls).linkUrl))

\* links.find((l) => l.linkUrl === url)
sampleOf(ls, url) == ls[CHOOSE i \in 1..Len(ls) :
                          /\ ls[i].linkUrl = url
                          /\ \A j \in 1..(i - 1) : ls[j].linkUrl # url]

\* ----------------------------------------------------------------------
\* checkLink
\* ----------------------------------------------------------------------
\* as tryRequests, but the response of the GET request is not kept
tryRequestsKeepsHead(head, get) ==
  [res |-> IF head.kind = "response" THEN head ELSE NoRequest,
   error |-> IF get.kind = "error" THEN get ELSE head,
   threw |-> FALSE]

\* as tryRequests, but a rejected request is not caught
tryRequestsNoCatch(head, get) ==
  [res |-> IF get.kind = "response" THEN get
           ELSE IF head.kind = "response" THEN head
           ELSE NoRequest,
   error |-> IF get.kind = "error" THEN get ELSE head,
   threw |-> head.kind = "error" \/ get.kind = "error"]

\* the try/catch statement of checkLink: res and error after it, and whether
\* an exception leaves it; get is NoRequest when GET was not issued
tryRequests(head, get) ==
  [res |-> IF get.kind = "response" THEN get
           ELSE IF head.kind = "response" THEN head
           ELSE NoRequest,
   error |-> IF get.kind = "error" THEN get ELSE head,
   threw |-> FALSE]

\* as checkLinkResult, but a caught error gives the result of a request
\* without response, whatever response was received before it
checkLinkResultErrorWins(normalized, isExternal, t) ==
  IF t.res.kind = "none" \/ t.error.kind = "error"
  THEN [url |-> normalized, ok |-> FALSE, status |-> 0, skipped |-> FALSE,
        error |-> IF t.error.message = "" THEN "Request failed" ELSE t.error.message,
        isExternal |-> isExternal]
  ELSE [url |-> normalized, ok |-> ResponseOk(t.res.status), status |-> t.res.status,
        skipped |-> FALSE, error |-> "", isExternal |-> isExternal]

\* the result object checkLink builds after the try/catch statement
checkLinkResult(normalized, isExternal, t) ==
  IF t.res.kind = "none"
  THEN [url |-> normalized, ok |-> FALSE, status |-> 0, skipped |-> FALSE,
        error |-> IF t.error.message = "" THEN "Request failed" ELSE t.error.message,
        isExternal |-> isExternal]
  ELSE [url |-> normalized, ok |-> ResponseOk(t.res.status), status |-> t.res.status,
        skipped |-> FALSE, error |-> "", isExternal |-> isExternal]

skippedResult(normalized, isExternal) ==
  [url |-> normalized, ok |-> TRUE, status |-> 0, skipped |-> TRUE,
   error |-> "", isExternal |-> isExternal]

\* checkLink issues GET after this HEAD outcome
retriesWithGet(head) ==
  head.kind = "response" /\ ~ResponseOk(head.status) /\ head.status >= 400

\* a request answered with anything but 200 counts as a fault of the run
IsFault(outcome) == outcome.kind = "error" \/ (outcome.kind = "response" /\ outcome.status # 200)

\* the outcomes a request of checkLink can have after n faults: fetch()
\* rejects a string that is no URL, the server decides for the others
RequestOutcomes(normalized, n) ==
  IF ParseUrl(normalized).threw
  THEN { [kind |-> "error", message |-> "Invalid URL"] }
  ELSE { fetchWithTimeout(a) :
           a \in IF n < MaxFaults THEN ServerAnswers
                 ELSE { [kind |-> "response", status |-> 200] } }

Put(m, k, v) == [x \in (DOMAIN m) \cup {k} |-> IF x = k THEN v ELSE m[x]]

EmptyMap == [x \in {} |-> 0]

\* ----------------------------------------------------------------------
\* main
\* ----------------------------------------------------------------------
\* as sortedPages, but in descending order
sortedPagesDescending(vs) == SortSeq(vs, LAMBDA x, y : StrLess(y, x))

\* Array.from(visited).sort()
sortedPages(vs) == SortSeq(vs, StrLess)

\* the links of a page with the result of their URL spread over them
RECURSIVE evaluatedLinks(_, _)
evaluatedLinks(ls, byUrl) ==
  IF ls = <<>> THEN <<>>
  ELSE LET link == Head(ls)
           result == byUrl[link.linkUrl]
       IN << [linkUrl |-> link.linkUrl, selector |-> link.selector,
              url |-> result.url, ok |-> result.ok, status |-> result.status,
              skipped |-> result.skipped, error |-> result.error,
              isExternal |-> result.isExternal] >>
          \o evaluatedLinks(Tail(ls), byUrl)

\* as countSkipped, but a page counts once however many of its links are
\* skipped
countSkippedOncePerPage(ls) ==
  IF \E i \in DOMAIN ls : ls[i].skipped THEN 1 ELSE 0

\* the increments of skippedExternal in the loop over the links of a page
RECURSIVE countSkipped(_)
countSkipped(ls) ==
  IF ls = <<>> THEN 0
  ELSE (IF Head(ls).skipped THEN 1 ELSE 0) + countSkipped(Tail(ls))

\* as failedPage, but the page record carries no link
failedPageNoLink(pageUrl, message) == [url |-> pageUrl, links |-> <<>>]

\* the record pushed for a page whose fetch was rejected
failedPage(pageUrl, message) ==
  [url |-> pageUrl,
   links |-> << [linkUrl |-> pageUrl, selector |-> 0, url |-> UNDEF, ok |-> FALSE,
                 status |-> 0, skipped |-> FALSE, error |-> message,
                 isExternal |-> FALSE] >>]

\* as brokenOfPage, but only internal links are reported
RECURSIVE brokenOfPageInternalOnly(_, _)
brokenOfPageInternalOnly(pageUrl, ls) ==
  IF ls = <<>> THEN <<>>
  ELSE LET l == Head(ls)
       IN (IF ~l.ok /\ ~l.skipped /\ ~l.isExternal
           THEN << [pageUrl |-> pageUrl, linkUrl |-> l.linkUrl, status |-> l.status,
                    error |-> l.error, isExternal |-> l.isExternal,
                    selector |-> l.selector] >>
           ELSE <<>>) \o brokenOfPageInternalOnly(pageUrl, Tail(ls))

\* page.links.filter((l) => !l.ok && !l.skipped).map(...)
RECURSIVE brokenOfPage(_, _)
brokenOfPage(pageUrl, ls) ==
  IF ls = <<>> THEN <<>>
  ELSE LET l == Head(ls)
       IN (IF ~l.ok /\ ~l.skipped
           THEN << [pageUrl |-> pageUrl, linkUrl |-> l.linkUrl, status |-> l.status,
                    error |-> l.error, isExternal |-> l.isExternal,
                    selector |-> l.selector] >>
           ELSE <<>>) \o brokenOfPage(pageUrl, Tail(ls))

\* pageResults.flatMap(...)
RECURSIVE brokenOf(_)
brokenOf(prs) ==
  IF prs = <<>> THEN <<>>
  ELSE brokenOfPage(Head(prs).url, Head(prs).links) \o brokenOf(Tail(prs))

\* process.exitCode after the verdict
verdict(b) == IF Len(b) > 0 THEN 1 ELSE 0

\* the finally block of main
finallyKill == killed' = (killed \/ server = "child")

\* as Abort, but the rejection of main() is not turned into exit code 1
AbortKeepsExitCode ==
  /\ pc' = "done"
  /\ finallyKill
  /\ UNCHANGED <<broken, written, exitCode>>

\* an exception leaves main: finally, then main().catch -> process.exit(1)
Abort ==
  /\ pc' = "done"
  /\ exitCode' = 1
  /\ finallyKill
  /\ UNCHANGED <<broken, written>>

\* main awaits a fetch() without abort signal that the server never
\* answers: no continuation of main is ever scheduled again
Blocked ==
  /\ pc' = "blocked"
  /\ UNCHANGED <<broken, written, exitCode, killed>>

\* the end of main's try block: aggregation, reports, verdict, finally
Report(prs) ==
  /\ broken' = brokenOf(prs)
  /\ written' = ReportFiles
  /\ exitCode' = verdict(brokenOf(prs))
  /\ finallyKill
  /\ pc' = "done"

\* the page loop continues with the next page, or main goes on to the report
NextPage(prs) ==
  IF pageIdx < Len(pages)
  THEN /\ pageIdx' = pageIdx + 1
       /\ pc' = "audit"
       /\ UNCHANGED <<broken, written, exitCode, killed>>
  ELSE /\ pageIdx' = pageIdx
       /\ Report(prs)

\* loadUrlsFromFile: the entries of the JSON array resolved against the
\* base URL and normalized, without those that do not resolve
RECURSIVE resolvedEntries(_, _)
resolvedEntries(entries, baseUrl) ==
  IF entries = <<>> THEN <<>>
  ELSE LET r == NewUrl(Head(entries), baseUrl)
       IN (IF r.threw THEN <<>> ELSE << normalizeUrl(r.str) >>)
            \o resolvedEntries(Tail(entries), baseUrl)

loadUrlsFromFile(file, baseUrl) ==
  IF file.array THEN resolvedEntries(file.entries, baseUrl) ELSE <<>>

\* pathname.replace(/^\/+/, "").replace(/\/$/, "")
RECURSIVE StripLeadingSlashes(_)
StripLeadingSlashes(p) ==
  IF p # <<>> /\ Head(p) = SLASH THEN StripLeadingSlashes(Tail(p)) ELSE p

fileExistsForPath(pathname) ==
  LET lead == StripLeadingSlashes(pathname)
      clean == IF EndsWithSlash(lead) THEN SubSeq(lead, 1, Len(lead) - 1) ELSE lead
  IN clean \in BuildFiles

\* pathname.startsWith("/en") || pathname.startsWith("/fr")
startsWithLang(pathname) ==
  Len(pathname) >= 2 /\ pathname[1] = SLASH /\ pathname[2] \in {EN, FR}

\* the $("loc").each callback of getUrlsFromSitemap applied to locs i..
RECURSIVE sitemapUrls(_, _, _, _)
sitemapUrls(locs, i, baseUrl, urls) ==
  IF i > Len(locs) THEN urls
  ELSE LET u == ParseUrl(locs[i])
       IN IF u.threw \/ ~startsWithLang(u.pathname) \/ ~fileExistsForPath(u.pathname)
          THEN sitemapUrls(locs, i + 1, baseUrl, urls)
          ELSE sitemapUrls(locs, i + 1, baseUrl,
                           SetAdd(urls, normalizeUrl(NewUrl(u.pathname, baseUrl).str)))

getUrlsFromSitemap(map, baseUrl) ==
  IF ~map.present THEN <<>>
  ELSE SortSeq(sitemapUrls(map.locs, 1, baseUrl, <<>>), StrLess)

\* as selectPages, but the sitemap is read first and the URL list is used
\* when it yields no page
selectPagesSitemapFirst(file, map, baseUrl) ==
  LET fromSitemap == getUrlsFromSitemap(map, baseUrl)
      fromFile == IF file.given THEN loadUrlsFromFile(file, baseUrl) ELSE <<>>
  IN IF fromSitemap # <<>> THEN [pages |-> fromSitemap, loaders |-> <<"sitemap">>]
     ELSE IF fromFile # <<>> THEN [pages |-> fromFile, loaders |-> <<"sitemap", "file">>]
     ELSE [pages |-> <<>>, loaders |-> <<"sitemap", "file", "crawl">>]

\* the page list of main() before it calls crawl(), and the sources it
\* used for it; crawl() is called when the list is empty
selectPages(file, map, baseUrl) ==
  LET fromFile == IF file.given THEN loadUrlsFromFile(file, baseUrl) ELSE <<>>
      used == IF file.given THEN <<"file">> ELSE <<>>
  IN IF fromFile # <<>> THEN [pages |-> fromFile, loaders |-> used]
     ELSE LET fromSitemap == getUrlsFromSitemap(map, baseUrl)
          IN IF fromSitemap # <<>>
             THEN [pages |-> fromSitemap, loaders |-> Append(used, "sitemap")]
             ELSE [pages |-> <<>>, loaders |-> used \o <<"sitemap", "crawl">>]

\* the outcomes of a page load with plain fetch(): the response arrives and
\* its body is read, fetch() rejects, res.text() rejects, or the request is
\* never answered
PageLoads(url) ==
  IF ParseUrl(url).threw THEN {"rejected"}
  ELSE {"ok"} \cup (IF faults < MaxFaults
                    THEN {"rejected", "bodyRejected", "pending"} ELSE {})

\* the module state of the script when main() is called
Loaded ==
  /\ pc = "setup"
  /\ faults = 0
  /\ spawned = FALSE
  /\ server = "null"
  /\ killed = FALSE
  /\ toVisit = <<BASE_URL>>
  /\ visited = <<>>
  /\ fetched = <<>>
  /\ crawlLoads = <<>>
  /\ pages = <<>>
  /\ pageIdx = 0
  /\ pageFetches = <<>>
  /\ links = <<>>
  /\ uniqueUrls = <<>>
  /\ checkIdx = 0
  /\ resultsByUrl = EmptyMap
  /\ linkCache = EmptyMap
  /\ probes = <<>>
  /\ pageResults = <<>>
  /\ skippedExternal = 0
  /\ broken = <<>>
  /\ written = {}
  /\ exitCode = 0
  /\ loaders = <<>>

\* external checks are on, or turned off by --skip-external or by
\* CHECK_EXTERNAL_LINKS=0
\* the page generator before main() runs
GeneratorIdle ==
  /\ genpc = "idle"
  /\ gitStatus = "unchecked"
  /\ answers = NoAnswers
  /\ prompts = <<>>
  /\ fileWrites = <<>>
  /\ genExitCode = 0

\* the remote sitemap reader before it is called
RemoteIdle ==
  /\ rpc = "idle"
  /\ targetUrl = <<SITE, SLASH>>
  /\ remoteWeb = <<>>
  /\ candidateIdx = 0
  /\ pendingCall = <<>>
  /\ loadStack = <<>>
  /\ seenSitemaps = <<>>
  /\ sitemapCalls = <<>>
  /\ collected = <<>>
  /\ remoteUrls = <<>>

\* the quality suite before main() runs
QualityIdle ==
  /\ qpc = "idle"
  /\ selectedChecks = NoChecks
  /\ selectedTarget = NoTarget
  /\ siteServer = "null"
  /\ commands = <<>>
  /\ stepResults = <<>>
  /\ failures = <<>>
  /\ processExitCode = 0

Init ==
  /\ BASE_URL \in BaseUrls
  /\ skipExternal \in BOOLEAN
  /\ envCheckExternal \in (IF skipExternal THEN {"unset"} ELSE {"unset", "0"})
  /\ site \in Sites
  /\ URLS_FILE = NoUrlsFile
  /\ sitemap = NoSitemap
  /\ Loaded
  /\ urlInput = <<>>
  /\ normalizations = <<>>
  /\ classified = <<>>
  /\ argv = <<>>
  /\ cli = NotRun
  /\ QualityIdle
  /\ GeneratorIdle
  /\ RemoteIdle

\* ensureReportDirClean and ensureSiteServer: the site answers, or a static
\* server is spawned and waited for; then crawl() starts
Setup ==
  /\ pc = "setup"
  /\ \E outcome \in {"healthy", "started", "buildFailed", "notReady"} :
       /\ spawned' = (outcome \in {"started", "notReady"})
       /\ server' = IF outcome = "started" THEN "child" ELSE "null"
       /\ IF outcome \in {"healthy", "started"}
          THEN LET sel == selectPages(URLS_FILE, sitemap, BASE_URL)
               IN /\ loaders' = sel.loaders
                  /\ IF sel.pages # <<>>
                     THEN /\ pages' = sel.pages
                          /\ pageIdx' = 1
                          /\ pc' = "audit"
                     ELSE /\ pc' = "crawl"
                          /\ UNCHANGED <<pages, pageIdx>>
                  /\ UNCHANGED <<killed, broken, written, exitCode>>
          ELSE Abort /\ UNCHANGED <<pages, pageIdx, loaders>>
  /\ UNCHANGED <<config, faults, crawlVars, pageFetches, pageVars,
                 checkVars, pageResults, skippedExternal, urlVars, toolVars>>

\* as crawlFrontier, but the anchors of a page replace the frontier
crawlFrontierForgetsOthers(load, page, url, rest, vs) ==
  IF load = "ok" /\ page.html THEN crawlAnchors(page.anchors, 1, url, <<>>, vs)
  ELSE rest

\* as crawlFrontier, but anchors are read whatever the fetch gave
crawlFrontierIgnoresFailure(load, page, url, rest, vs) ==
  crawlAnchors(page.anchors, 1, url, rest, vs)

\* toVisit at the end of an iteration of crawl(): anchors are read only
\* from a response that arrived with an HTML content type
crawlFrontier(load, page, url, rest, vs) ==
  IF load = "ok" /\ page.html THEN crawlAnchors(page.anchors, 1, url, rest, vs)
  ELSE rest

\* one iteration of the while loop of crawl() that takes the k-th URL of
\* toVisit; the last iteration returns the sorted visited set to main, which
\* enters its page loop
CrawlTake(k) ==
  /\ pc = "crawl"
  /\ k \in DOMAIN toVisit
  /\ LET url == toVisit[k]
         others == SubSeq(toVisit, 1, k - 1) \o SubSeq(toVisit, k + 1, Len(toVisit))
         vs == SetAdd(visited, url)
     IN /\ visited' = vs
        /\ fetched' = Append(fetched, url)
        /\ \E load \in PageLoads(url) :
             /\ crawlLoads' = Append(crawlLoads, load)
             /\ faults' = IF load = "ok" THEN faults ELSE faults + 1
             /\ LET page == Served(url)
                    tv == crawlFrontier(load, page, url, others, vs)
                IN /\ toVisit' = tv
                   /\ CASE load = "pending" ->
                             Blocked /\ UNCHANGED <<pages, pageIdx>>
                        [] load = "bodyRejected" /\ page.html ->
                             Abort /\ UNCHANGED <<pages, pageIdx>>
                        [] OTHER ->
                             /\ UNCHANGED <<broken, written, exitCode, killed>>
                             /\ IF tv = <<>>
                                THEN /\ pages' = sortedPages(vs)
                                     /\ pageIdx' = 1
                                     /\ pc' = "audit"
                                ELSE /\ pc' = "crawl"
                                     /\ UNCHANGED <<pages, pageIdx>>
  /\ UNCHANGED <<config, spawned, server, pageFetches, pageVars, checkVars,
                 pageResults, skippedExternal, loaders, urlVars, toolVars>>

\* const [url] = toVisit: the loop takes the first URL in insertion order
CrawlStep == CrawlTake(1)

\* the loop of crawl() if it took the URLs of toVisit in any order
CrawlStepAnyOrder == \E k \in DOMAIN toVisit : CrawlTake(k)

\* the page record of an audited page and the continuation of the page loop
FinishPage(pageUrl, evaluated) ==
  LET prs == Append(pageResults, [url |-> pageUrl, links |-> evaluated])
  IN /\ pageResults' = prs
     /\ skippedExternal' = skippedExternal + countSkipped(evaluated)
     /\ links' = <<>>
     /\ uniqueUrls' = <<>>
     /\ checkIdx' = 0
     /\ resultsByUrl' = EmptyMap
     /\ NextPage(prs)

\* one iteration of the page loop of main up to its first checkLink call
AuditPage ==
  /\ pc = "audit"
  /\ LET pageUrl == pages[pageIdx]
     IN \E load \in PageLoads(pageUrl) :
          /\ faults' = IF load = "ok" THEN faults ELSE faults + 1
          /\ pageFetches' = Append(pageFetches, [url |-> pageUrl, load |-> load])
          /\ CASE load = "pending" ->
                    Blocked /\ UNCHANGED <<pageIdx, pageVars, pageResults, skippedExternal>>
               [] load = "bodyRejected" ->
                    Abort /\ UNCHANGED <<pageIdx, pageVars, pageResults, skippedExternal>>
               [] load = "rejected" ->
                    LET prs == Append(pageResults, failedPage(pageUrl, "fetch failed"))
                    IN /\ pageResults' = prs
                       /\ NextPage(prs)
                       /\ UNCHANGED <<pageVars, skippedExternal>>
               [] OTHER ->
                    LET ls == extractLinks(Served(pageUrl).anchors, 1, pageUrl)
                        us == uniqueOf(ls, <<>>)
                    IN IF us = <<>>
                       THEN FinishPage(pageUrl, evaluatedLinks(ls, EmptyMap))
                       ELSE /\ links' = ls
                            /\ uniqueUrls' = us
                            /\ checkIdx' = 1
                            /\ resultsByUrl' = EmptyMap
                            /\ pc' = "check"
                            /\ UNCHANGED <<pageIdx, pageResults, skippedExternal,
                                           broken, written, exitCode, killed>>
  /\ UNCHANGED <<config, spawned, server, crawlVars, pages, checkVars, loaders,
                 urlVars, toolVars>>

\* the continuation of the page loop after checkLink returned result for
\* uniqueUrls[checkIdx]
AfterCheck(result) ==
  LET url == uniqueUrls[checkIdx]
      byUrl == Put(resultsByUrl, url, result)
  IN IF checkIdx < Len(uniqueUrls)
     THEN /\ resultsByUrl' = byUrl
          /\ checkIdx' = checkIdx + 1
          /\ pc' = "check"
          /\ UNCHANGED <<links, uniqueUrls, pageIdx, pageResults, skippedExternal,
                         broken, written, exitCode, killed>>
     ELSE FinishPage(pages[pageIdx], evaluatedLinks(links, byUrl))

\* as cacheHas, but the cache is never hit
cacheHasNever(normalized) == FALSE

\* as skipsExternal, but external links are always checked
skipsExternalNever(isExternal) == FALSE

\* linkCache.has(normalized)
cacheHas(normalized) == normalized \in DOMAIN linkCache

\* isExternal && !CHECK_EXTERNAL
skipsExternal(isExternal) == isExternal /\ ~CHECK_EXTERNAL

\* one call of checkLink from the page loop
CheckLinkStep ==
  /\ pc = "check"
  /\ LET url == uniqueUrls[checkIdx]
         isExternal == sampleOf(links, url).isExternal
         normalized == normalizeUrl(url)
     IN IF cacheHas(normalized)
        THEN /\ AfterCheck(linkCache[normalized])
             /\ UNCHANGED <<linkCache, probes, faults>>
        ELSE IF skipsExternal(isExternal)
        THEN /\ linkCache' = Put(linkCache, normalized, skippedResult(normalized, isExternal))
             /\ AfterCheck(skippedResult(normalized, isExternal))
             /\ UNCHANGED <<probes, faults>>
        ELSE \E head \in RequestOutcomes(normalized, faults) :
               \E get \in (IF retriesWithGet(head)
                           THEN RequestOutcomes(normalized, faults + 1) ELSE {NoRequest}) :
                 LET t == tryRequests(head, get)
                     result == checkLinkResult(normalized, isExternal, t)
                     sent == << [url |-> normalized, method |-> "HEAD", outcome |-> head] >>
                             \o (IF get.kind = "none" THEN <<>>
                                 ELSE << [url |-> normalized, method |-> "GET",
                                          outcome |-> get] >>)
                 IN /\ probes' = probes \o sent
                    /\ faults' = faults + (IF IsFault(head) THEN 1 ELSE 0)
                                        + (IF IsFault(get) THEN 1 ELSE 0)
                    /\ IF t.threw
                       THEN /\ Abort
                            /\ UNCHANGED <<linkCache, pageIdx, pageVars, pageResults,
                                           skippedExternal>>
                       ELSE /\ linkCache' = Put(linkCache, normalized, result)
                            /\ AfterCheck(result)
  /\ UNCHANGED <<config, spawned, server, crawlVars, pages, pageFetches, loaders,
                 urlVars, toolVars>>

Next == Setup \/ CrawlStep \/ AuditPage \/ CheckLinkStep

Spec == Init /\ [][Next]_vars

\* ----------------------------------------------------------------------
\* Runs with a URL list (--urls-file) and a sitemap in the build directory
\* ----------------------------------------------------------------------
\* the sites of these runs: the page /a has no anchors
ListedSites == { s \in Sites : s[<<SITE, SLASH, "a">>].anchors = <<>> }

ListedInit ==
  /\ BASE_URL \in BaseUrls
  /\ skipExternal = FALSE
  /\ envCheckExternal = "unset"
  /\ site \in ListedSites
  /\ URLS_FILE \in UrlsFiles
  /\ sitemap \in Sitemaps
  /\ Loaded
  /\ urlInput = <<>>
  /\ normalizations = <<>>
  /\ classified = <<>>
  /\ argv = <<>>
  /\ cli = NotRun
  /\ QualityIdle
  /\ GeneratorIdle
  /\ RemoteIdle

ListedSpec == ListedInit /\ [][Next]_vars

\* ----------------------------------------------------------------------
\* Crawls of sites whose start page links to two pages
\* ----------------------------------------------------------------------
\* the anchors of the start page
BranchingLists ==
  { << <<SLASH, "b">>, <<SLASH, "a">>, <<SLASH, "a", SLASH, "b">> >>,
    << <<SLASH, "a", HASH>>, <<SITE, SLASH, "b", SLASH>>, <<EXT, SLASH, "a">> >> }

\* the page /a: not HTML, without anchors, or linking back
BranchContents ==
  { [html |-> FALSE, anchors |-> <<>>],
    [html |-> TRUE, anchors |-> <<>>],
    [html |-> TRUE, anchors |-> Prefix(<< <<SLASH>>, <<SLASH, "b", QMARK>>, <<"b">> >>,
                                       MaxAnchors)] }

BranchingSites ==
  { [k \in PageKeys |->
       IF k = <<SITE, SLASH>> THEN [html |-> TRUE, anchors |-> Prefix(l, MaxAnchors)]
       ELSE c] : l \in BranchingLists, c \in BranchContents }

CrawlInit ==
  /\ BASE_URL \in BaseUrls
  /\ skipExternal = FALSE
  /\ envCheckExternal = "unset"
  /\ site \in BranchingSites
  /\ URLS_FILE = NoUrlsFile
  /\ sitemap = NoSitemap
  /\ Loaded
  /\ urlInput = <<>>
  /\ normalizations = <<>>
  /\ classified = <<>>
  /\ argv = <<>>
  /\ cli = NotRun
  /\ QualityIdle
  /\ GeneratorIdle
  /\ RemoteIdle

CrawlSpec == CrawlInit /\ [][Next]_vars

\* the same runs, up to the return of crawl(), with a crawl that takes the
\* URLs of toVisit in any order
AnyOrderNext == Setup \/ CrawlStepAnyOrder

AnyOrderSpec == CrawlInit /\ [][AnyOrderNext]_vars

\* ----------------------------------------------------------------------
\* The URL helpers on their own: normalizeUrl and isInternal applied to a
\* string, for a base URL
\* ----------------------------------------------------------------------
HelperInit ==
  /\ BASE_URL \in HelperBaseUrls
  /\ skipExternal = FALSE
  /\ envCheckExternal = "unset"
  /\ site = [k \in PageKeys |-> [html |-> FALSE, anchors |-> <<>>]]
  /\ URLS_FILE = NoUrlsFile
  /\ sitemap = NoSitemap
  /\ Loaded
  /\ urlInput \in UrlStrings
  /\ normalizations = <<>>
  /\ classified = <<>>
  /\ argv = <<>>
  /\ cli = NotRun
  /\ QualityIdle
  /\ GeneratorIdle
  /\ RemoteIdle

\* normalizeUrl applied to the input, then to its own result
NormalizeCall ==
  /\ Len(normalizations) < 2
  /\ normalizations' = Append(normalizations,
                          normalizeUrl(IF normalizations = <<>> THEN urlInput
                                       ELSE normalizations[Len(normalizations)]))
  /\ UNCHANGED <<runVars, urlInput, classified, toolVars>>

IsInternalCall ==
  /\ classified = <<>>
  /\ classified' = <<isInternal(urlInput)>>
  /\ UNCHANGED <<runVars, urlInput, normalizations, toolVars>>

\* the anchor callback of main() applied to the input as href of an anchor
\* of the page at BASE_URL
ExtractCall ==
  /\ links = <<>>
  /\ links' = extractLinks(<<urlInput>>, 1, BASE_URL)
  /\ UNCHANGED <<config, pc, faults, spawned, server, killed, crawlVars, pages, pageIdx,
                 pageFetches, uniqueUrls, checkIdx, resultsByUrl, checkVars,
                 pageResults, skippedExternal, broken, written, exitCode, loaders,
                 urlVars, toolVars>>

HelperNext == NormalizeCall \/ IsInternalCall \/ ExtractCall

HelperSpec == HelperInit /\ [][HelperNext]_vars

\* ----------------------------------------------------------------------
\* runCli on a command line
\* ----------------------------------------------------------------------
CliInit ==
  /\ BASE_URL = <<SITE>>
  /\ skipExternal = FALSE
  /\ envCheckExternal = "unset"
  /\ site = [k \in PageKeys |-> [html |-> FALSE, anchors |-> <<>>]]
  /\ URLS_FILE = NoUrlsFile
  /\ sitemap = NoSitemap
  /\ Loaded
  /\ urlInput = <<>>
  /\ normalizations = <<>>
  /\ classified = <<>>
  /\ argv \in Argvs
  /\ cli = NotRun
  /\ QualityIdle
  /\ GeneratorIdle
  /\ RemoteIdle

\* what runCli does: print the help, run a script or the formatter with
\* arguments, or reject the command; exit is the exit code of the process
Did(ran, script, args, exit) == [ran |-> ran, script |-> script, args |-> args, exit |-> exit]

RunCli ==
  /\ cli = NotRun
  /\ LET mainCommand == IF Len(argv) >= 1 THEN <<argv[1]>> ELSE <<>>
         maybeSubCommand == IF Len(argv) >= 2 THEN <<argv[2]>> ELSE <<>>
         rest == SubSeq(argv, 3, Len(argv))
     IN \E status \in ChildStatuses :
          cli' =
            IF mainCommand = <<>> \/ mainCommand[1] \in {"-h", "--help"}
            THEN Did("help", NoScript, <<>>, 0)
            ELSE IF mainCommand[1] = "clean"
            THEN Did("script", resolveScript("clean", <<>>), maybeSubCommand \o rest, status)
            ELSE IF mainCommand[1] = "format"
            THEN Did("format", NoScript, maybeSubCommand \o rest, status)
            ELSE IF mainCommand[1] \in {"quality", "update"}
            THEN IF maybeSubCommand = <<>> \/ maybeSubCommand[1] \in {"-h", "--help"}
                 THEN Did("help", NoScript, <<>>, 1)
                 ELSE IF resolveScript(mainCommand[1], maybeSubCommand) = NoScript
                 THEN Did("unknown subcommand", NoScript, <<>>, 1)
                 ELSE Did("script", resolveScript(mainCommand[1], maybeSubCommand),
                          rest, status)
            ELSE Did("unknown command", NoScript, <<>>, 1)
  /\ UNCHANGED <<runVars, urlVars, argv, qualityVars, genVars, remoteVars>>

CliNext == RunCli

CliSpec == CliInit /\ [][CliNext]_vars

\* ----------------------------------------------------------------------
\* main() of the quality suite
\* ----------------------------------------------------------------------
QualityInit ==
  /\ BASE_URL = <<SITE>>
  /\ skipExternal = FALSE
  /\ envCheckExternal = "unset"
  /\ site = [k \in PageKeys |-> [html |-> FALSE, anchors |-> <<>>]]
  /\ URLS_FILE = NoUrlsFile
  /\ sitemap = NoSitemap
  /\ Loaded
  /\ urlInput = <<>>
  /\ normalizations = <<>>
  /\ classified = <<>>
  /\ argv = <<>>
  /\ cli = NotRun
  /\ QualityIdle
  /\ GeneratorIdle
  /\ RemoteIdle

\* main().catch: process.exit(1)
QualityThrow ==
  /\ qpc' = "done"
  /\ processExitCode' = 1

\* promptForChecks and promptForTarget
QualityPrompt ==
  /\ qpc = "idle"
  /\ \E choice \in TEST_CHOICES, options \in CliOptions, configured \in Configurations,
        answer \in {"development", "staging", "production"} :
       /\ answer \in configured
       /\ selectedChecks' = choiceToFlags(choice)
       /\ selectedTarget' = promptForTarget(options, configured, answer)
       /\ IF selectedTarget' = NoTarget
          THEN QualityThrow
          ELSE qpc' = "setup" /\ UNCHANGED processExitCode
  /\ UNCHANGED <<siteServer, commands, stepResults, failures>>
  /\ UNCHANGED <<runVars, urlVars, cliVars, genVars, remoteVars>>

\* the build, the site server and the page list
QualitySetup ==
  /\ qpc = "setup"
  /\ \E outcome \in {"ready", "buildFailed", "notReady", "noUrls"} :
       /\ outcome = "buildFailed" => selectedTarget.usesLocalBuild
       /\ commands' = IF selectedTarget.usesLocalBuild
                      THEN Append(commands, "npm run build") ELSE commands
       /\ siteServer' = IF ~selectedTarget.usesLocalBuild \/ outcome = "buildFailed"
                        THEN "null"
                        ELSE IF outcome = "ready" THEN "running" ELSE "killed"
       /\ IF outcome = "ready"
          THEN qpc' = "steps" /\ UNCHANGED processExitCode
          ELSE QualityThrow
  /\ UNCHANGED <<selectedChecks, selectedTarget, stepResults, failures>>
  /\ UNCHANGED <<runVars, urlVars, cliVars, genVars, remoteVars>>

\* one call of runStep
QualityStep ==
  /\ qpc = "steps"
  /\ Len(stepResults) < Len(StepKeys)
  /\ LET key == StepKeys[Len(stepResults) + 1]
         enabled == stepEnabled(key, selectedChecks, selectedTarget)
         eventful == { i \in DOMAIN stepResults :
                         stepResults[i].enabled /\ ~Uneventful(stepResults[i]) }
     IN IF ~enabled
        THEN /\ stepResults' = Append(stepResults,
                                 [key |-> key, enabled |-> FALSE, crashed |-> FALSE,
                                  started |-> FALSE, code |-> <<>>, stats |-> "none"])
             /\ UNCHANGED <<commands, failures>>
        ELSE \E o \in StepOutcomes(key) :
               /\ Uneventful(o) \/ Cardinality(eventful) < MaxFaults
               /\ stepResults' = Append(stepResults,
                                   [key |-> key, enabled |-> TRUE, crashed |-> o.crashed,
                                    started |-> o.started, code |-> o.code,
                                    stats |-> o.stats])
               /\ commands' = IF o.started THEN Append(commands, StepScripts[key])
                              ELSE commands
               /\ failures' = IF o.crashed \/ stepFailed(key, o.code, o.stats)
                              THEN Append(failures, StepNames[key]) ELSE failures
  /\ qpc' = IF Len(stepResults') = Len(StepKeys) THEN "report" ELSE "steps"
  /\ UNCHANGED <<selectedChecks, selectedTarget, siteServer, processExitCode>>
  /\ UNCHANGED <<runVars, urlVars, cliVars, genVars, remoteVars>>

\* after the steps: the site server is stopped, the reports are served and
\* the exit code is set
QualityReport ==
  /\ qpc = "report"
  /\ siteServer' = IF siteServer = "running" THEN "killed" ELSE siteServer
  /\ processExitCode' = IF failures # <<>> THEN 1 ELSE processExitCode
  /\ qpc' = "done"
  /\ UNCHANGED <<selectedChecks, selectedTarget, commands, stepResults, failures>>
  /\ UNCHANGED <<runVars, urlVars, cliVars, genVars, remoteVars>>

QualityNext == QualityPrompt \/ QualitySetup \/ QualityStep \/ QualityReport

QualitySpec == QualityInit /\ [][QualityNext]_vars

\* ----------------------------------------------------------------------
\* main() of the page generator
\* ----------------------------------------------------------------------
GeneratorInit ==
  /\ BASE_URL = <<SITE>>
  /\ skipExternal = FALSE
  /\ envCheckExternal = "unset"
  /\ site = [k \in PageKeys |-> [html |-> FALSE, anchors |-> <<>>]]
  /\ URLS_FILE = NoUrlsFile
  /\ sitemap = NoSitemap
  /\ Loaded
  /\ urlInput = <<>>
  /\ normalizations = <<>>
  /\ classified = <<>>
  /\ argv = <<>>
  /\ cli = NotRun
  /\ QualityIdle
  /\ GeneratorIdle
  /\ RemoteIdle

\* main().catch: process.exit(1)
GeneratorThrow ==
  /\ genpc' = "done"
  /\ genExitCode' = 1

\* ensureCleanGit
CheckGit ==
  /\ genpc = "idle"
  /\ \E status \in GitStatuses :
       /\ gitStatus' = status
       /\ IF ensureCleanGit(status)
          THEN genpc' = "prompt" /\ UNCHANGED genExitCode
          ELSE genpc' = "done" /\ genExitCode' = 1
  /\ UNCHANGED <<answers, prompts, fileWrites>>
  /\ UNCHANGED <<runVars, urlVars, cliVars, qualityVars, remoteVars>>

\* promptConfig
PromptConfig ==
  /\ genpc = "prompt"
  /\ prompts' = Append(prompts, "config")
  /\ answers' \in Answers
  /\ genpc' = IF answers'.routeType = "segment" THEN "segments" ELSE afterSegments(answers')
  /\ UNCHANGED <<gitStatus, fileWrites, genExitCode>>
  /\ UNCHANGED <<runVars, urlVars, cliVars, qualityVars, remoteVars>>

\* updateSegments
UpdateSegments ==
  /\ genpc = "segments"
  /\ \E outcome \in {"inserted", "existing", "noFile", "noMap", "insertFailed",
                     "verifyFailed"} :
       /\ fileWrites' = IF outcome \in {"inserted", "verifyFailed"}
                        THEN Append(fileWrites, "segments map") ELSE fileWrites
       /\ IF outcome \in {"inserted", "existing"}
          THEN genpc' = afterSegments(answers) /\ UNCHANGED genExitCode
          ELSE GeneratorThrow
  /\ UNCHANGED <<gitStatus, answers, prompts>>
  /\ UNCHANGED <<runVars, urlVars, cliVars, qualityVars, remoteVars>>

\* updateMenu for one locale
UpdateMenu ==
  /\ genpc \in {"menu fr", "menu en"}
  /\ \E outcome \in {"added", "overwritten", "kept", "unreadable"} :
       /\ prompts' = IF outcome \in {"overwritten", "kept"}
                     THEN Append(prompts, "overwriteMenu") ELSE prompts
       /\ fileWrites' = IF outcome \in {"added", "overwritten"}
                        THEN Append(fileWrites, IF genpc = "menu fr" THEN "fr/menu.json"
                                                ELSE "en/menu.json")
                        ELSE fileWrites
       /\ IF outcome = "unreadable"
          THEN GeneratorThrow
          ELSE /\ genpc' = IF genpc = "menu fr" THEN "menu en" ELSE "content"
               /\ UNCHANGED genExitCode
  /\ UNCHANGED <<gitStatus, answers>>
  /\ UNCHANGED <<runVars, urlVars, cliVars, qualityVars, remoteVars>>

\* writeSeoJsonFiles
WriteSeoJsonFiles ==
  /\ genpc = "content"
  /\ \E outcome \in {"fresh", "overwritten", "declined", "unreadable"} :
       /\ prompts' = IF outcome \in {"overwritten", "declined"}
                     THEN Append(prompts, "overwriteContent") ELSE prompts
       /\ fileWrites' = IF outcome \in {"fresh", "overwritten"}
                        THEN fileWrites \o <<"fr content JSON", "en content JSON">>
                        ELSE fileWrites
       /\ IF outcome \in {"fresh", "overwritten"}
          THEN genpc' = "page" /\ UNCHANGED genExitCode
          ELSE GeneratorThrow
  /\ UNCHANGED <<gitStatus, answers>>
  /\ UNCHANGED <<runVars, urlVars, cliVars, qualityVars, remoteVars>>

\* writeAstroTemplate
WriteAstroTemplate ==
  /\ genpc = "page"
  /\ \E outcome \in {"created", "exists"} :
       /\ fileWrites' = IF outcome = "created" THEN Append(fileWrites, "Astro page")
                        ELSE fileWrites
       /\ IF outcome = "created"
          THEN genpc' = "done" /\ UNCHANGED genExitCode
          ELSE GeneratorThrow
  /\ UNCHANGED <<gitStatus, answers, prompts>>
  /\ UNCHANGED <<runVars, urlVars, cliVars, qualityVars, remoteVars>>

GeneratorNext ==
  CheckGit \/ PromptConfig \/ UpdateSegments \/ UpdateMenu \/ WriteSeoJsonFiles
    \/ WriteAstroTemplate

GeneratorSpec == GeneratorInit /\ [][GeneratorNext]_vars

\* ----------------------------------------------------------------------
\* The remote sitemap (scripts/run-quality-suite.mjs)
\* ----------------------------------------------------------------------
\* the file names that getUrlsFromRemoteSitemap tries, in order
CandidateNames == <<"sitemap-0.xml", "sitemap.xml", "sitemap-index.xml">>

\* further sitemap files of the remote site
NestedNames == {"1.xml", "2.xml", "3.xml", "4.xml", "5.xml"}

XmlNames == SeqToSet(CandidateNames) \cup NestedNames

\* the greatest depth at which loadRemoteSitemapUrls reads a sitemap
MaxDepth == 3

\* pathname.toLowerCase().endsWith(".xml")
endsWithXml(pathname) == pathname # <<>> /\ pathname[Len(pathname)] \in XmlNames

isLocalePath(pathname) == startsWithLang(pathname)

isSameOrigin(candidate, baseUrl) ==
  LET a == ParseUrl(candidate)
      b == ParseUrl(baseUrl)
  IN IF a.threw \/ b.threw THEN FALSE ELSE a.origin = b.origin

\* what fetchText gives: the loc values of the XML it read, null (the
\* response is not ok, or its body is empty), or a rejection
Xml(locs) == [kind |-> "xml", locs |-> locs]
NotOk == [kind |-> "null"]
Rejects == [kind |-> "throws"]

\* the request carries the URL without its fragment
fetchText(web, url) ==
  LET u == ParseUrl(url)
      requested == u.origin \o u.pathname \o u.search
  IN IF requested \in DOMAIN web THEN web[requested] ELSE NotOk

\* as skipsSitemap, but the sitemaps already read are not looked at
skipsSitemapByDepthOnly(sitemapUrl, depth, seen) == depth > MaxDepth

\* seen.has(sitemapUrl) || depth > 3
skipsSitemap(sitemapUrl, depth, seen) ==
  sitemapUrl \in SeqToSet(seen) \/ depth > MaxDepth

\* the loop of loadRemoteSitemapUrls over locValues from position i on, up
\* to its next call of loadRemoteSitemapUrls or to its end
RECURSIVE scanLocs(_, _, _, _)
scanLocs(locValues, i, baseUrl, pageUrls) ==
  IF i > Len(locValues) THEN [nested |-> <<>>, next |-> i, pageUrls |-> pageUrls]
  ELSE LET absolute == NewUrl(locValues[i], baseUrl)
       IN IF absolute.threw THEN scanLocs(locValues, i + 1, baseUrl, pageUrls)
          ELSE IF ~isSameOrigin(absolute.str, baseUrl)
          THEN scanLocs(locValues, i + 1, baseUrl, pageUrls)
          ELSE LET pathname == ParseUrl(absolute.str).pathname
               IN IF endsWithXml(pathname)
                  THEN [nested |-> <<absolute.str>>, next |-> i + 1, pageUrls |-> pageUrls]
                  ELSE IF ~isLocalePath(pathname)
                  THEN scanLocs(locValues, i + 1, baseUrl, pageUrls)
                  ELSE scanLocs(locValues, i + 1, baseUrl,
                                Append(pageUrls, normalizeUrl(absolute.str)))

\* the suspended calls of loadRemoteSitemapUrls go on after the innermost
\* got the array nested from its call: up to the next call, or to the
\* return of the outermost
RECURSIVE continueLoad(_, _, _)
continueLoad(stack, nested, baseUrl) ==
  IF stack = <<>> THEN [stack |-> <<>>, call |-> <<>>, urls |-> nested]
  ELSE LET f == stack[Len(stack)]
           below == SubSeq(stack, 1, Len(stack) - 1)
           r == scanLocs(f.locValues, f.next, baseUrl, f.pageUrls \o nested)
       IN IF r.nested # <<>>
          THEN [stack |-> Append(below, [f EXCEPT !.next = r.next,
                                                   !.pageUrls = r.pageUrls]),
                call |-> << [sitemapUrl |-> r.nested[1], depth |-> f.depth + 1] >>,
                urls |-> <<>>]
          ELSE continueLoad(below, r.pageUrls, baseUrl)

\* for (const url of urls) collected.add(normalizeUrl(url))
RECURSIVE collectUrls(_, _)
collectUrls(set, urls) ==
  IF urls = <<>> THEN set
  ELSE collectUrls(SetAdd(set, normalizeUrl(Head(urls))), Tail(urls))

candidateUrls(baseUrl) ==
  [i \in DOMAIN CandidateNames |-> NewUrl(<<CandidateNames[i]>>, baseUrl).str]

\* remote sites: five nested sitemaps that form a ring, and three candidate
\* files that are missing, unreadable, or list pages and sitemaps
SitemapAt(name) == <<SITE, SLASH, name>>

NestedWeb ==
  (SitemapAt("1.xml") :> Xml(<< SitemapAt("2.xml"), <<SITE, SLASH, EN, SLASH, "a", SLASH>> >>))
  @@ (SitemapAt("2.xml") :> Xml(<< SitemapAt("3.xml") >>))
  @@ (SitemapAt("3.xml") :> Xml(<< SitemapAt("4.xml"), <<SITE, SLASH, FR, SLASH>> >>))
  @@ (SitemapAt("4.xml") :> Xml(<< <<SLASH, EN, SLASH, "b">>, SitemapAt("5.xml") >>))
  @@ (SitemapAt("5.xml") :> Xml(<< SitemapAt("1.xml"), <<SITE, SLASH, FR, SLASH, "b">> >>))

CandidateContents ==
  { NotOk, Rejects,
    Xml(<< SitemapAt("1.xml"), <<SITE, SLASH, EN, SLASH>> >>),
    Xml(<< <<"sitemap.xml">>, SitemapAt("3.xml"), <<SITE, SLASH, EN, HASH>>,
           <<EXT, SLASH, FR>>, <<SITE, SLASH, "a">>, <<BADABS>> >>),
    Xml(<< <<SLASH, "sitemap-0.xml", HASH>>, <<EXT, SLASH, "1.xml">>,
           SitemapAt("5.xml"), <<SLASH, FR, SLASH, "b", QMARK>> >>) }

RemoteWebs ==
  { [u \in DOMAIN NestedWeb \cup SeqToSet(candidateUrls(<<SITE, SLASH>>)) |->
       IF u \in DOMAIN NestedWeb THEN NestedWeb[u]
       ELSE IF u = SitemapAt(CandidateNames[1]) THEN c[1]
       ELSE IF u = SitemapAt(CandidateNames[2]) THEN c[2]
       ELSE c[3]] :
    c \in CandidateContents \X CandidateContents \X CandidateContents }

RemoteBases == { <<SITE, SLASH>>, <<SITE, SLASH, "a">> }

RemoteInit ==
  /\ BASE_URL = <<SITE>>
  /\ skipExternal = FALSE
  /\ envCheckExternal = "unset"
  /\ site = [k \in PageKeys |-> [html |-> FALSE, anchors |-> <<>>]]
  /\ URLS_FILE = NoUrlsFile
  /\ sitemap = NoSitemap
  /\ Loaded
  /\ urlInput = <<>>
  /\ normalizations = <<>>
  /\ classified = <<>>
  /\ argv = <<>>
  /\ cli = NotRun
  /\ QualityIdle
  /\ GeneratorIdle
  /\ rpc = "idle"
  /\ targetUrl \in RemoteBases
  /\ remoteWeb \in RemoteWebs
  /\ candidateIdx = 0
  /\ pendingCall = <<>>
  /\ loadStack = <<>>
  /\ seenSitemaps = <<>>
  /\ sitemapCalls = <<>>
  /\ collected = <<>>
  /\ remoteUrls = <<>>

\* getUrlsFromRemoteSitemap up to its first call of loadRemoteSitemapUrls
GetUrlsFromRemoteSitemap ==
  /\ rpc = "idle"
  /\ rpc' = "load"
  /\ candidateIdx' = 1
  /\ pendingCall' = << [sitemapUrl |-> candidateUrls(targetUrl)[1], depth |-> 0] >>
  /\ UNCHANGED <<targetUrl, remoteWeb, loadStack, seenSitemaps, sitemapCalls,
                 collected, remoteUrls>>
  /\ UNCHANGED <<runVars, urlVars, cliVars, qualityVars, genVars>>

\* one call of loadRemoteSitemapUrls, and what follows it up to the next
\* call: the loops of the calls that waited for it and, after the return
\* of the outermost, the loop of getUrlsFromRemoteSitemap
LoadRemoteSitemapUrls ==
  /\ rpc = "load"
  /\ LET call == pendingCall[1]
         skipped == skipsSitemap(call.sitemapUrl, call.depth, seenSitemaps)
         xml == fetchText(remoteWeb, call.sitemapUrl)
         entered == ~skipped /\ xml.kind = "xml"
         r == continueLoad(IF entered
                           THEN Append(loadStack, [locValues |-> xml.locs, next |-> 1,
                                                   pageUrls |-> <<>>,
                                                   depth |-> call.depth])
                           ELSE loadStack,
                           <<>>, targetUrl)
     IN /\ seenSitemaps' = IF skipped THEN seenSitemaps
                           ELSE Append(seenSitemaps, call.sitemapUrl)
        /\ sitemapCalls' = Append(sitemapCalls,
                                  [sitemapUrl |-> call.sitemapUrl, depth |-> call.depth,
                                   fetched |-> ~skipped])
        /\ loadStack' = r.stack
        /\ IF r.call # <<>>
           THEN /\ pendingCall' = r.call
                /\ UNCHANGED <<rpc, candidateIdx, collected, remoteUrls>>
           ELSE /\ collected' = collectUrls(collected, r.urls)
                /\ IF candidateIdx < Len(CandidateNames)
                   THEN /\ candidateIdx' = candidateIdx + 1
                        /\ pendingCall' = << [sitemapUrl |->
                                                candidateUrls(targetUrl)[candidateIdx + 1],
                                              depth |-> 0] >>
                        /\ UNCHANGED <<rpc, remoteUrls>>
                   ELSE /\ rpc' = "done"
                        /\ pendingCall' = <<>>
                        /\ remoteUrls' = SortSeq(collected', StrLess)
                        /\ UNCHANGED candidateIdx
  /\ UNCHANGED <<targetUrl, remoteWeb>>
  /\ UNCHANGED <<runVars, urlVars, cliVars, qualityVars, genVars>>

RemoteNext == GetUrlsFromRemoteSitemap \/ LoadRemoteSitemapUrls

\* the event loop runs every continuation that is ready: a step of
\* RemoteNext is possible exactly as long as rpc is not "done", and weak
\* fairness of RemoteNext is written with that condition
RemoteFairness == []<>(rpc = "done") \/ []<><<RemoteNext>>_vars

RemoteSpec == RemoteInit /\ [][RemoteNext]_vars /\ RemoteFairness

\* ----------------------------------------------------------------------
\* Properties
\* ----------------------------------------------------------------------
\* the link records of all page records, as (page index, link index) pairs
LinkIds == { <<p, l>> \in (1..Len(pageResults)) \X (1..(MaxAnchors + 1)) :
               l <= Len(pageResults[p].links) }
LinkAt(id) == pageResults[id[1]].links[id[2]]

\* the link records that carry a result of checkLink (built from an anchor)
AnchorLinkIds == { id \in LinkIds : LinkAt(id).selector # 0 }

\* positions of the requests of checkLink with a given method and URL
ProbesOf(method, url) ==
  { i \in 1..Len(probes) : probes[i].method = method /\ probes[i].url = url }

\* the GET request that follows HEAD request i of the same checkLink call
HasGetAfter(i) ==
  i < Len(probes) /\ probes[i + 1].method = "GET" /\ probes[i + 1].url = probes[i].url

\* C1: crawl() fetches each normalized URL exactly once: no two requests of
\* the crawl are for URLs with the same normalized form.
C1_FetchedOncePerNormalizedUrl ==
  \A i, j \in 1..Len(fetched) :
    normalizeUrl(fetched[i]) = normalizeUrl(fetched[j]) => i = j

C1_FetchTwice ==
  \E i, j \in 1..Len(fetched) :
    i # j /\ normalizeUrl(fetched[i]) = normalizeUrl(fetched[j])

\* the result fields a link record reports
Reported(r) == <<r.ok, r.status, r.skipped>>

C2_ProbedOnce ==
  \A k \in DOMAIN linkCache :
    Cardinality(ProbesOf("HEAD", k)) <= 1 /\ Cardinality(ProbesOf("GET", k)) <= 1

C2_SameResult ==
  \A x, y \in AnchorLinkIds :
    LinkAt(x).linkUrl = LinkAt(y).linkUrl => Reported(LinkAt(x)) = Reported(LinkAt(y))

C2_CacheWrittenOnce ==
  \A k \in DOMAIN linkCache : k \in DOMAIN linkCache' /\ linkCache'[k] = linkCache[k]

\* C2: a link URL referenced several times, on one page or on several,
\* is probed by checkLink at most once in the run (one HEAD, at most one
\* GET), its cache entry never changes once written, and all link records
\* built for it report the same ok / status / skipped.
C2_CheckedOnceAndShared ==
  [](C2_ProbedOnce /\ C2_SameResult) /\ [][C2_CacheWrittenOnce]_vars

\* a probed URL is referenced by anchors of two different page records
C2_Witness ==
  \E x, y \in AnchorLinkIds :
    /\ x[1] # y[1]
    /\ LinkAt(x).linkUrl = LinkAt(y).linkUrl
    /\ ProbesOf("HEAD", LinkAt(x).linkUrl) # {}

\* HEAD request i was answered with a status >= 400 and the GET that
\* followed it with a success status
HeadRejectedGetOk(i) ==
  /\ probes[i].method = "HEAD"
  /\ probes[i].outcome.kind = "response"
  /\ probes[i].outcome.status >= 400
  /\ HasGetAfter(i)
  /\ probes[i + 1].outcome.kind = "response"
  /\ ResponseOk(probes[i + 1].outcome.status)

\* C3: when HEAD is answered with a status >= 400 and GET with a success
\* status, the result of checkLink is ok with the status of the GET
\* response, and no link record built for the URL is in broken.
C3_GetFallbackSucceeds ==
  \A i \in 1..Len(probes) :
    HeadRejectedGetOk(i) =>
      /\ probes[i].url \in DOMAIN linkCache
      /\ linkCache[probes[i].url].ok
      /\ linkCache[probes[i].url].status = probes[i + 1].outcome.status
      /\ \A x \in AnchorLinkIds : LinkAt(x).url = probes[i].url => LinkAt(x).ok
      /\ \A b \in 1..Len(broken) :
           ~(broken[b].selector # 0 /\ broken[b].linkUrl = probes[i].url)

\* the run ended with its report and a link whose HEAD was refused and
\* whose GET succeeded
C3_Witness ==
  /\ pc = "done"
  /\ written = ReportFiles
  /\ \E i \in 1..Len(probes) :
       /\ HeadRejectedGetOk(i)
       /\ probes[i].outcome.status = 405
       /\ \E x \in AnchorLinkIds : LinkAt(x).url = probes[i].url

\* C4: checkLink issues a GET whenever its HEAD request did not succeed:
\* after a HEAD response with status >= 400 and after a HEAD request that
\* failed with a network error or a timeout.
C4_GetAfterEveryFailedHead ==
  \A i \in 1..Len(probes) :
    (/\ probes[i].method = "HEAD"
     /\ \/ (probes[i].outcome.kind = "response" /\ probes[i].outcome.status >= 400)
        \/ (probes[i].outcome.kind = "error" /\ probes[i].outcome.message \in ErrorMessages))
    => HasGetAfter(i)

\* C5: with external checks disabled, the result of checkLink for an
\* external link is ok, skipped, status 0, and no HEAD or GET request is
\* issued for its URL.
C5_ExternalSkippedWithoutRequest ==
  (skipExternal \/ envCheckExternal = "0") =>
    /\ \A k \in DOMAIN linkCache :
         linkCache[k].isExternal =>
           /\ linkCache[k].ok /\ linkCache[k].skipped /\ linkCache[k].status = 0
           /\ ProbesOf("HEAD", k) = {} /\ ProbesOf("GET", k) = {}
    /\ \A x \in AnchorLinkIds :
         LinkAt(x).isExternal =>
           /\ LinkAt(x).ok /\ LinkAt(x).skipped /\ LinkAt(x).status = 0
           /\ ProbesOf("HEAD", LinkAt(x).linkUrl) = {}
           /\ ProbesOf("GET", LinkAt(x).linkUrl) = {}
    /\ \A i \in 1..Len(probes) : isInternal(probes[i].url)

\* external checks are disabled and a page record holds an external link
C5_Witness ==
  /\ ~skipExternal
  /\ envCheckExternal = "0"
  /\ \E x \in AnchorLinkIds : LinkAt(x).isExternal /\ LinkAt(x).linkUrl[1] = EXT

\* C6: once the site is reachable and the page list is known, the run ends
\* with exit code 1 if and only if the broken list is non-empty.
C6_ExitCodeIffBroken ==
  (pc = "done" /\ pages # <<>>) => (exitCode = 1 <=> broken # <<>>)

\* the link records that are neither ok nor skipped
DeadLinkIds == { id \in LinkIds : ~LinkAt(id).ok /\ ~LinkAt(id).skipped }

\* broken entry b reports link record id
EntryOf(b, id) ==
  /\ broken[b].pageUrl = pageResults[id[1]].url
  /\ broken[b].selector = LinkAt(id).selector
  /\ broken[b].linkUrl = LinkAt(id).linkUrl
  /\ broken[b].status = LinkAt(id).status
  /\ broken[b].isExternal = LinkAt(id).isExternal

\* both requests of checkLink for url were answered 404
Answered404Twice(url) ==
  \E i \in ProbesOf("HEAD", url) :
    /\ probes[i].outcome = [kind |-> "response", status |-> 404]
    /\ HasGetAfter(i)
    /\ probes[i + 1].outcome = [kind |-> "response", status |-> 404]

\* C7: in the report, broken holds exactly one entry for each link record
\* (page, anchor) that is neither ok nor skipped and no other entry; an
\* anchor to an internal URL answered 404 on HEAD and on GET has exactly
\* one entry, with status 404 and isExternal false.
C7_BrokenIsTheDeadLinks ==
  (pc = "done" /\ written = ReportFiles) =>
    /\ Len(broken) = Cardinality(DeadLinkIds)
    /\ \A id \in DeadLinkIds :
         Cardinality({ b \in 1..Len(broken) : EntryOf(b, id) }) = 1
    /\ \A b \in 1..Len(broken) : \E id \in DeadLinkIds : EntryOf(b, id)
    /\ \A id \in AnchorLinkIds :
         (Answered404Twice(LinkAt(id).linkUrl) /\ isInternal(LinkAt(id).linkUrl)) =>
           Cardinality({ b \in 1..Len(broken) :
                           /\ EntryOf(b, id)
                           /\ broken[b].status = 404
                           /\ ~broken[b].isExternal }) = 1

\* the report lists an internal link answered 404 twice, next to a link
\* that is ok
C7_Witness ==
  /\ pc = "done"
  /\ written = ReportFiles
  /\ \E id \in AnchorLinkIds :
       Answered404Twice(LinkAt(id).linkUrl) /\ isInternal(LinkAt(id).linkUrl)
  /\ \E id \in AnchorLinkIds : LinkAt(id).ok

C8_NoResponseIsFailedResult ==
  \A i \in 1..Len(probes) :
    (probes[i].method = "HEAD" /\ probes[i].outcome.kind = "error") =>
      /\ probes[i].url \in DOMAIN linkCache
      /\ ~linkCache[probes[i].url].ok
      /\ linkCache[probes[i].url].status = 0
      /\ linkCache[probes[i].url].error # ""

C8_EveryRequestHasResult ==
  \A i \in 1..Len(probes) :
    /\ probes[i].url \in DOMAIN linkCache
    /\ linkCache[probes[i].url].url = probes[i].url

\* a checkLink call does not end main with an exception: after it main is
\* in its loops or has written its report
C8_CheckLinkReturns ==
  (pc = "check" /\ pc' = "done") => written' = ReportFiles

\* C8: whatever the URL string and the outcomes of HEAD and GET, checkLink
\* returns a result and raises no exception; when no request got a
\* response the result is ok = false, status = 0 with an error message.
C8_CheckLinkNeverRaises ==
  [](C8_NoResponseIsFailedResult /\ C8_EveryRequestHasResult)
    /\ [][C8_CheckLinkReturns]_vars

\* a string that is no URL and a URL whose HEAD request failed were both
\* given a result
C8_Witness ==
  /\ \E i \in 1..Len(probes) :
       probes[i].outcome = [kind |-> "error", message |-> "Invalid URL"]
  /\ \E i \in 1..Len(probes) :
       /\ probes[i].method = "HEAD"
       /\ probes[i].outcome.kind = "error"
       /\ probes[i].outcome.message \in ErrorMessages

\* C9: a failure while the page loop loads a page does not end the run:
\* every page of the list gets its page record and the three report files
\* are written.
C9_PageFailuresAreData ==
  (pc = "done" /\ pages # <<>>) =>
    (written = ReportFiles /\ Len(pageResults) = Len(pages))

\* C10: every request of the run is bounded by a timeout: main is never
\* left waiting for a request that the server does not answer and that no
\* timer aborts.
C10_NoRequestWaitsForever == pc # "blocked"

\* the audited pages whose fetch() was rejected, by position in the page list
RejectedPageIds == { i \in 1..Len(pageFetches) : pageFetches[i].load = "rejected" }

\* C11: a page whose fetch is rejected gets a page record with exactly one
\* link: linkUrl is the page URL, ok = false, status = 0, isExternal =
\* false, with the error message; in the report that link is an entry of
\* broken, and the run ends with exit code 1.
C11_FailedPageIsOneBrokenLink ==
  \A i \in RejectedPageIds :
    /\ i <= Len(pageResults)
    /\ pageResults[i].url = pages[i]
    /\ Len(pageResults[i].links) = 1
    /\ LET l == pageResults[i].links[1]
       IN /\ l.linkUrl = pages[i]
          /\ ~l.ok
          /\ l.status = 0
          /\ ~l.isExternal
          /\ l.error = "fetch failed"
    /\ pc = "done" => exitCode = 1
    /\ (pc = "done" /\ written = ReportFiles) =>
         \E b \in 1..Len(broken) :
           /\ broken[b].pageUrl = pages[i]
           /\ broken[b].linkUrl = pages[i]
           /\ broken[b].status = 0
           /\ broken[b].error = "fetch failed"
           /\ ~broken[b].isExternal

\* the report was written after the fetch of a page was rejected and the
\* fetch of another page succeeded
C11_Witness ==
  /\ pc = "done"
  /\ written = ReportFiles
  /\ RejectedPageIds # {}
  /\ \E i \in 1..Len(pageFetches) : pageFetches[i].load = "ok"

\* s cannot be parsed into a URL
Unparsable(s) == ParseUrl(s).threw

\* C12: an anchor whose href cannot be parsed into a URL, relative or
\* written as an absolute URL, is dropped at extraction: no link record,
\* no request of checkLink and no entry of broken carries such a string.
C12_UnparsableHrefDropped ==
  /\ \A id \in AnchorLinkIds : ~Unparsable(LinkAt(id).linkUrl)
  /\ \A i \in 1..Len(links) : ~Unparsable(links[i].linkUrl)
  /\ \A k \in DOMAIN linkCache : ~Unparsable(k)
  /\ \A i \in 1..Len(probes) : ~Unparsable(probes[i].url)
  /\ \A b \in 1..Len(broken) : ~Unparsable(broken[b].linkUrl)

\* C13: normalizeUrl is idempotent: for every string, parsable as a URL or
\* not, normalizing the result of normalizeUrl gives that result again.
C13_NormalizeIdempotent ==
  Len(normalizations) = 2 => normalizations[2] = normalizations[1]

\* normalizeUrl was applied twice to a URL of which it removes several
\* trailing "/" and the fragment
C13_Witness ==
  /\ Len(normalizations) = 2
  /\ ~Unparsable(urlInput)
  /\ Len(urlInput) - Len(normalizations[1]) >= 2
  /\ urlInput[Len(urlInput)] = SLASH

C14_Disjoint == SeqToSet(toVisit) \cap SeqToSet(visited) = {}

C14_NeverRequeued ==
  /\ SeqToSet(visited) \subseteq SeqToSet(visited')
  /\ \A u \in SeqToSet(visited) : u \notin SeqToSet(toVisit')

\* C14: in every state of the crawl toVisit and visited have no URL in
\* common, and a URL that is in visited is never added to toVisit again.
C14_VisitedNeverRequeued == []C14_Disjoint /\ [][C14_NeverRequeued]_vars

\* the absolute URLs, in normalized form, of the anchors of the page that
\* crawl() fetched last
LastCrawledTargets ==
  LET url == fetched[Len(fetched)]
      anchors == Served(url).anchors
  IN { normalizeUrl(hrefToAbsolute(anchors[i], url).absolute) :
         i \in { j \in 1..Len(anchors) : ~hrefToAbsolute(anchors[j], url).skip } }

\* the crawl has fetched a page that links to a page visited before it
C14_Witness ==
  /\ pc \in {"crawl", "audit"}
  /\ pageFetches = <<>>
  /\ Len(fetched) >= 2
  /\ \E u \in LastCrawledTargets : u \in SeqToSet(SubSeq(visited, 1, Len(visited) - 1))

\* crawl() has returned its result to main
CrawlReturned == fetched # <<>> /\ pc \in {"audit", "check", "done"} /\ pages # <<>>

\* the number of URLs a crawl can meet: the start URL and one per anchor
\* of the pages of the site
MaxCrawled == 1 + Cardinality(PageKeys) * MaxAnchors

C15_Progress ==
  /\ pc = "crawl" => toVisit # <<>>
  /\ Len(fetched) <= MaxCrawled
  /\ Len(visited) = Len(fetched)

C15_Result ==
  CrawlReturned =>
    /\ toVisit = <<>>
    /\ SeqToSet(pages) = SeqToSet(visited)
    /\ \A i \in 1..(Len(pages) - 1) : StrLess(pages[i], pages[i + 1])

C15_NoOutboundLinks ==
  (CrawlReturned /\ BASE_URL = <<SITE, SLASH>> /\ site[BASE_URL].anchors = <<>>) =>
    pages = << <<SITE, SLASH>> >>

\* C15: the crawl terminates: every iteration visits a URL not visited
\* before, of the finitely many that the pages of the site link to, and
\* the loop runs while toVisit is not empty; it returns with toVisit empty
\* and the visited set sorted ascending without duplicates; for the start
\* URL http://site/ whose page has no outbound links the result is
\* exactly ["http://site/"].
C15_CrawlTerminatesSorted == C15_Progress /\ C15_Result /\ C15_NoOutboundLinks

\* crawl() has just returned three pages
C15_Witness ==
  /\ pc = "audit"
  /\ pageFetches = <<>>
  /\ CrawlReturned
  /\ Len(pages) = 3

\* p is a prefix of s
HasPrefix(s, p) == \E n \in 0..Len(s) : SubSeq(s, 1, n) = p

C16_PrefixOfBase ==
  classified # <<>> =>
    (classified[1] <=> HasPrefix(normalizeUrl(urlInput), normalizeUrl(BASE_URL)))

C16_OtherDirectoryIsExternal ==
  (/\ classified # <<>>
   /\ normalizeUrl(BASE_URL) = <<SITE, SLASH, "a">>
   /\ normalizeUrl(urlInput) = <<SITE, SLASH, "b">>) => ~classified[1]

C16_LinksTagged ==
  \A i \in 1..Len(links) :
    links[i].isExternal <=>
      ~HasPrefix(normalizeUrl(links[i].linkUrl), normalizeUrl(BASE_URL))

\* C16: isInternal(url) is true if and only if normalizeUrl(url) has
\* normalizeUrl(BASE_URL) as a string prefix; with a base URL in a
\* directory of the site a URL of another directory of the same host is
\* external; every link record is tagged isExternal = not isInternal.
C16_InternalIsPrefixOfBase ==
  C16_PrefixOfBase /\ C16_OtherDirectoryIsExternal /\ C16_LinksTagged

\* with base http://site/a, http://site/b was classified and extracted as
\* an external link
C16_Witness ==
  /\ normalizeUrl(BASE_URL) = <<SITE, SLASH, "a">>
  /\ urlInput = <<SITE, SLASH, "b">>
  /\ classified = <<FALSE>>
  /\ Len(links) = 1
  /\ links[1].isExternal

\* an href that is empty, starts with mailto: or tel:, or is a fragment
Skippable(href) == href = <<>> \/ href[1] \in {MAILTO, TEL, HASH}

\* the normalized absolute URLs of the anchors of the page served at url
\* that are not skippable
CheckedTargets(url) ==
  LET anchors == Served(url).anchors
  IN { normalizeUrl(IF StartsWithHttp(anchors[i]) THEN anchors[i]
                    ELSE ResolveUrl(anchors[i], url).str) :
         i \in { j \in 1..Len(anchors) :
                   /\ ~Skippable(anchors[j])
                   /\ (StartsWithHttp(anchors[j]) \/ ~ResolveUrl(anchors[j], url).threw) } }

\* the anchor of the page at url that a link with this selector was built from
AnchorOf(url, selector) == Served(url).anchors[selector]

C17_NotInLinks ==
  /\ \A id \in AnchorLinkIds :
       ~Skippable(AnchorOf(pageResults[id[1]].url, LinkAt(id).selector))
  /\ \A i \in 1..Len(links) : ~Skippable(AnchorOf(pages[pageIdx], links[i].selector))

\* every URL given to checkLink is the URL of a link
C17_NotChecked ==
  \A i \in 1..Len(probes) :
    \/ \E l \in 1..Len(links) : links[l].linkUrl = probes[i].url
    \/ \E id \in AnchorLinkIds : LinkAt(id).linkUrl = probes[i].url

C17_NotEnqueued ==
  pc = "crawl" =>
    \A u \in SeqToSet(toVisit') \ SeqToSet(toVisit) : u \in CheckedTargets(Head(toVisit))

\* C17: an anchor whose href is empty, starts with mailto: or tel:, or is
\* a fragment (#...) gives no link record, is never added to toVisit and
\* causes no request of checkLink: every link record, every URL added
\* to toVisit and every checked URL comes from an anchor that is none of
\* these.
C17_SkippableAnchorsIgnored ==
  [](C17_NotInLinks /\ C17_NotChecked) /\ [][C17_NotEnqueued]_vars

\* the page record of position p is of a page that was loaded and whose
\* anchors, of the given kinds, gave no link
SkippedAll(p, kinds) ==
  /\ pageFetches[p].load = "ok"
  /\ pageResults[p].links = <<>>
  /\ Served(pageResults[p].url).anchors # <<>>
  /\ \A j \in 1..Len(Served(pageResults[p].url).anchors) :
       LET href == Served(pageResults[p].url).anchors[j]
       IN (href = <<>> /\ "empty" \in kinds) \/ (href # <<>> /\ href[1] \in kinds)

\* the report holds a page that was loaded, has a mailto: and a tel:
\* anchor and no link
C17_Witness ==
  /\ pc = "done"
  /\ written = ReportFiles
  /\ \E p \in 1..Len(pageResults) : SkippedAll(p, {MAILTO, TEL})

\* the entries of the URL list that resolve against the base URL
ResolvableEntries ==
  IF URLS_FILE.given /\ URLS_FILE.array
  THEN SelectSeq(URLS_FILE.entries, LAMBDA e : ~NewUrl(e, BASE_URL).threw)
  ELSE <<>>

\* the URL list, each entry resolved against the base URL and normalized
ListedPages ==
  [i \in 1..Len(ResolvableEntries) |->
     normalizeUrl(NewUrl(ResolvableEntries[i], BASE_URL).str)]

\* the sitemap names a page of a language directory that was built
SitemapYieldsPage ==
  /\ sitemap.present
  /\ \E i \in 1..Len(sitemap.locs) :
       LET u == ParseUrl(sitemap.locs[i])
       IN ~u.threw /\ startsWithLang(u.pathname) /\ fileExistsForPath(u.pathname)

\* main() has its page list or has called crawl()
PagesSelected == loaders # <<>>

C18_ListIsUsed ==
  (PagesSelected /\ ResolvableEntries # <<>>) =>
    /\ pages = ListedPages
    /\ loaders = <<"file">>
    /\ fetched = <<>>
    /\ Len(pageFetches) <= Len(ListedPages)
    /\ \A i \in 1..Len(pageFetches) : pageFetches[i].url = ListedPages[i]

C18_CrawlIsLast ==
  /\ fetched # <<>> => (PagesSelected /\ loaders[Len(loaders)] = "crawl")
  /\ (PagesSelected /\ loaders[Len(loaders)] = "crawl") =>
       (ResolvableEntries = <<>> /\ ~SitemapYieldsPage)
  /\ (PagesSelected /\ ResolvableEntries = <<>> /\ ~SitemapYieldsPage) =>
       loaders[Len(loaders)] = "crawl"

\* C18: when --urls-file is given and yields at least one resolvable URL,
\* the audited pages are exactly that list, each entry resolved against
\* the base URL and normalized, in the order of the list, and neither the
\* sitemap nor the crawler is used; the crawler runs if and only if the
\* URL list and the sitemap both yield no page.
C18_UrlListReplacesCrawl == C18_ListIsUsed /\ C18_CrawlIsLast

\* the run audited the two pages of a URL list although the sitemap
\* names a page, and wrote its report
C18_Witness ==
  /\ pc = "done"
  /\ written = ReportFiles
  /\ Len(ListedPages) = 2
  /\ SitemapYieldsPage
  /\ Len(pageFetches) = 2
  /\ Len(pageResults) = 2

\* the run ended in ensureSiteServer: the site did not answer and the
\* build or the static server failed
SetupFailed == pc = "done" /\ ~PagesSelected

\* C19: when the site at the base URL is not reachable and the local
\* server cannot be started or does not become ready, the run ends with a
\* non-zero exit code and none of links.json, SUMMARY.md and report.html
\* is written.
C19_NoServerNoReport ==
  SetupFailed =>
    /\ exitCode # 0
    /\ written \cap ReportFiles = {}
    /\ pageFetches = <<>> /\ fetched = <<>> /\ probes = <<>>

\* the run ended after the static server it started did not become ready
C19_Witness == SetupFailed /\ spawned

\* the command line starts with a command of the README
IsReadmeCommand ==
  \E c \in ReadmeCommands : Len(c) <= Len(argv) /\ SubSeq(argv, 1, Len(c)) = c

\* C20: every command that the README lists under "Available commands"
\* is accepted by runCli and given to its script or to the formatter:
\* none is rejected as unknown command or unknown subcommand.
C20_ReadmeCommandsDispatched ==
  (cli # NotRun /\ IsReadmeCommand) => cli.ran \in {"script", "format"}

\* C21: in a run of the quality suite the JSON-LD validation is executed
\* only for the target that uses the local build; for production, staging
\* and --base its script is never started and no failure is recorded for it
RemoteTarget == selectedTarget.key \in {"staging", "production", "custom"}

JsonLdRuns == { i \in DOMAIN stepResults :
                  stepResults[i].key = "jsonld" /\ stepResults[i].enabled }

C21_JsonLdOnlyOnLocalBuild ==
  /\ JsonLdRuns # {} => selectedTarget.key = "development" /\ selectedTarget.usesLocalBuild
  /\ RemoteTarget =>
       /\ \A i \in DOMAIN commands : commands[i] # StepScripts["jsonld"]
       /\ \A i \in DOMAIN failures : failures[i] # StepNames["jsonld"]
       /\ (qpc = "done" /\ failures = <<>> /\ Len(stepResults) = Len(StepKeys)
             => processExitCode = 0)

\* JSON-LD validation was selected for a remote target and the run is over
C21_Witness ==
  /\ qpc = "done"
  /\ RemoteTarget
  /\ selectedChecks["jsonld"]
  /\ Len(stepResults) = Len(StepKeys)
  /\ \E i \in DOMAIN stepResults : stepResults[i].key = "jsonld" /\ ~stepResults[i].enabled

\* C28: in a run of the quality suite a check that fails or crashes does
\* not keep the later enabled checks from running, and the exit code is 1
\* exactly when an enabled check reported errors or its sub-process ended
\* abnormally: it crashed, ended with a code other than 0, or was killed by
\* a signal before it wrote its statistics
StepsOver == qpc = "done" /\ Len(stepResults) = Len(StepKeys)

EndedAbnormally(r) ==
  \/ r.crashed
  \/ exitedNonZero(r.code)
  \/ r.code = <<>> /\ r.stats = "none"

C28_LaterChecksRun ==
  \A i \in DOMAIN stepResults :
    /\ stepResults[i].key = StepKeys[i]
    /\ stepResults[i].enabled = stepEnabled(StepKeys[i], selectedChecks, selectedTarget)
    /\ stepResults[i].enabled => stepResults[i].started \/ stepResults[i].crashed

C28_ExitCodeTellsFailedChecks ==
  /\ C28_LaterChecksRun
  /\ StepsOver =>
       (processExitCode = 1 <=>
          \E i \in DOMAIN stepResults :
            /\ stepResults[i].enabled
            /\ stepResults[i].stats = "errors" \/ EndedAbnormally(stepResults[i]))

\* C22: the page generator writes a project file (segments map, menu.json,
\* content JSON, Astro page) only after the git working tree was checked
\* and found clean; when the tree is dirty or the check fails it exits with
\* code 1 before any prompt is shown and before any file is written
C22_CleanBeforeWrite == fileWrites # <<>> \/ prompts # <<>> => gitStatus = "clean"

C22_DirtyExits ==
  gitStatus \in {"dirty", "error"} =>
    genpc = "done" /\ genExitCode = 1 /\ prompts = <<>> /\ fileWrites = <<>>

C22_WritesFollowCheck ==
  (fileWrites' # fileWrites \/ prompts' # prompts) => gitStatus = "clean" /\ gitStatus' = "clean"

C22_CleanGitBeforeAnyWrite ==
  /\ [](C22_CleanBeforeWrite /\ C22_DirtyExits)
  /\ [][C22_WritesFollowCheck]_vars

\* the generator created the page and its files after a clean check
C22_Witness ==
  /\ genpc = "done"
  /\ genExitCode = 0
  /\ gitStatus = "clean"
  /\ Len(fileWrites) >= 4
  /\ fileWrites[Len(fileWrites)] = "Astro page"

\* the generator stopped on a dirty tree
C22_WitnessDirty == genpc = "done" /\ gitStatus = "dirty" /\ genExitCode = 1

\* C23: during the crawl a URL whose fetch fails and a URL whose response
\* is not HTML are still added to visited and to the crawl output, add no
\* URL to toVisit and do not stop the crawl: the rest of the frontier is
\* still processed
NoLinksRead(i) ==
  \/ crawlLoads[i] = "rejected"
  \/ crawlLoads[i] \in {"ok", "bodyRejected"} /\ ~Served(fetched[i]).html

C23_Visited ==
  /\ Len(crawlLoads) = Len(fetched)
  /\ \A i \in DOMAIN crawlLoads :
       NoLinksRead(i) =>
         /\ fetched[i] \in SeqToSet(visited)
         /\ CrawlReturned => fetched[i] \in SeqToSet(pages)

C23_Step ==
  LET load == crawlLoads'[Len(crawlLoads')]
  IN (/\ Len(crawlLoads') > Len(crawlLoads)
      /\ \/ load = "rejected"
         \/ load \in {"ok", "bodyRejected"} /\ ~Served(Head(toVisit)).html) =>
    /\ toVisit' = Tail(toVisit)
    /\ visited' = SetAdd(visited, Head(toVisit))
    /\ IF toVisit' # <<>> THEN pc' = "crawl" ELSE pc' = "audit" /\ pages' # <<>>

C23_FailedUrlsAreLeaves == []C23_Visited /\ [][C23_Step]_vars

\* a fetch failed while the frontier was not empty, the crawl went on to a
\* URL whose response was not HTML, and returned both
C23_Witness ==
  /\ CrawlReturned
  /\ \E i \in DOMAIN crawlLoads : crawlLoads[i] = "rejected" /\ i < Len(crawlLoads)
  /\ \E i \in DOMAIN crawlLoads : crawlLoads[i] = "ok" /\ ~Served(fetched[i]).html

\* C24: skippedExternal is the number of link records, counted per anchor
\* over all pages, whose result is skipped; with external checks disabled
\* every external anchor is counted and none is in broken; with external
\* checks enabled it stays 0 and an external link answered 200 is not in
\* broken
SkippedLinkIds == { id \in LinkIds : LinkAt(id).skipped }

ExternalLinkIds == { id \in AnchorLinkIds : LinkAt(id).isExternal }

Answered200(url) ==
  \E i \in ProbesOf("HEAD", url) : probes[i].outcome = [kind |-> "response", status |-> 200]

C24_SkippedExternalCount ==
  /\ skippedExternal = Cardinality(SkippedLinkIds)
  /\ ~CHECK_EXTERNAL =>
       /\ SkippedLinkIds = ExternalLinkIds
       /\ \A b \in DOMAIN broken : ~broken[b].isExternal
  /\ CHECK_EXTERNAL =>
       /\ skippedExternal = 0
       /\ \A id \in ExternalLinkIds :
            Answered200(LinkAt(id).url) =>
              /\ LinkAt(id).ok
              /\ \A b \in DOMAIN broken : ~EntryOf(b, id)

\* the report of a run without external checks: two anchors of a page to
\* the same external URL were counted twice
C24_Witness ==
  /\ pc = "done"
  /\ written = ReportFiles
  /\ ~CHECK_EXTERNAL
  /\ \E x, y \in ExternalLinkIds :
       x # y /\ x[1] = y[1] /\ LinkAt(x).url = LinkAt(y).url
  /\ skippedExternal >= 2

\* C25: normalizeUrl removes the fragment and, when the path is longer than
\* "/", all trailing slashes, and changes nothing else: scheme, host, port
\* and query are preserved and the root path keeps its slash; two URLs that
\* differ only by fragment or trailing slash have the same normal form, two
\* URLs that differ in origin, query or another path segment never do
AllSlashes(p) == \A i \in DOMAIN p : p[i] = SLASH

\* the effect of normalizeUrl on the URL u, n being the URL of its result
FragmentAndSlashesOnly(u, n) ==
  /\ ~n.threw
  /\ n.hash = <<>>
  /\ n.origin = u.origin
  /\ n.search = u.search
  /\ Len(n.pathname) <= Len(u.pathname)
  /\ SubSeq(u.pathname, 1, Len(n.pathname)) = n.pathname
  /\ AllSlashes(SubSeq(u.pathname, Len(n.pathname) + 1, Len(u.pathname)))
  /\ n.pathname = <<SLASH>> \/ ~EndsWithSlash(n.pathname)
  /\ u.pathname = <<SLASH>> => n.pathname = <<SLASH>>

\* URLs that differ from u by the fragment or by a trailing slash only
Twins(u) ==
  { UrlToString([u EXCEPT !.hash = h, !.pathname = @ \o t]) :
      h \in {<<>>, <<HASH>>}, t \in {<<>>, <<SLASH>>} }

\* URLs that differ from u in the origin, in the query or by a path segment
Strangers(u) ==
  { UrlToString([u EXCEPT !.origin = IF @ = <<SITE>> THEN <<EXT>> ELSE <<SITE>>]),
    UrlToString([u EXCEPT !.search = IF @ = <<>> THEN <<QMARK>> ELSE <<>>]),
    UrlToString([u EXCEPT !.pathname = IF EndsWithSlash(@) THEN @ \o <<"b">>
                                       ELSE @ \o <<SLASH, "b">>]) }

C25_Frame(u) ==
  normalizations # <<>> =>
    /\ FragmentAndSlashesOnly(u, ParseUrl(normalizations[1]))
    /\ \A v \in Twins(u) : normalizeUrl(v) = normalizations[1]
    /\ \A v \in Strangers(u) : normalizeUrl(v) # normalizations[1]

\* the statement for every string that is a URL
C25_NormalizeChangesFragmentAndSlashesOnly ==
  ~ParseUrl(urlInput).threw => C25_Frame(ParseUrl(urlInput))

\* the statement for http and https URLs: a mailto: or tel: URL with an
\* opaque path keeps its trailing slashes, and its empty path is not "/"
IsHttpUrl(s) == ~ParseUrl(s).threw /\ ParseUrl(s).origin[1] \in Origins

C25_HttpFragmentAndSlashesOnly == IsHttpUrl(urlInput) => C25_Frame(ParseUrl(urlInput))

\* normalizeUrl was applied to a URL with trailing slashes and a fragment
C25_Witness ==
  /\ normalizations # <<>>
  /\ IsHttpUrl(urlInput)
  /\ ParseUrl(urlInput).hash # <<>>
  /\ Len(ParseUrl(urlInput).pathname) > 1
  /\ EndsWithSlash(ParseUrl(urlInput).pathname)

\* C26: the set that crawl() returns is the start URL together with every
\* normalized internal URL reachable from it through chains of anchors of
\* pages that were fetched successfully with an HTML content type; the set,
\* and so the sorted output, is the same whatever order the URLs are taken
\* from toVisit
\* the normalized internal URLs that the anchors of the page at url lead to
Targets(url) == SeqToSet(crawlAnchors(Served(url).anchors, 1, url, <<>>, <<>>))

\* the crawl received the page at url with an HTML content type
FetchedHtml(url) ==
  /\ Served(url).html
  /\ \E i \in DOMAIN crawlLoads : fetched[i] = url /\ crawlLoads[i] = "ok"

\* the least set that holds R and the targets of its pages that were
\* fetched (of all its HTML pages, if fetchedOnly is FALSE)
RECURSIVE ReachableFrom(_, _)
ReachableFrom(R, fetchedOnly) ==
  LET expanded == { u \in R : IF fetchedOnly THEN FetchedHtml(u) ELSE Served(u).html }
      next == R \cup UNION { Targets(u) : u \in expanded }
  IN IF next = R THEN R ELSE ReachableFrom(next, fetchedOnly)

C26_CrawlReturnsReachableSet ==
  CrawlReturned =>
    /\ SeqToSet(pages) = ReachableFrom({BASE_URL}, TRUE)
    /\ \A i \in 1..(Len(pages) - 1) : StrLess(pages[i], pages[i + 1])
    /\ (\A i \in DOMAIN crawlLoads : crawlLoads[i] = "ok") =>
         SeqToSet(pages) = ReachableFrom({BASE_URL}, FALSE)

\* a crawl that took the second URL of toVisit before the first has
\* returned; one of the pages was not fetched
C26_Witness ==
  /\ CrawlReturned
  /\ Len(fetched) >= 4
  /\ site[<<SITE, SLASH>>].anchors[1] = <<SLASH, "b">>
  /\ fetched[2] = <<SITE, SLASH, "a">>
  /\ \E i \in DOMAIN crawlLoads : crawlLoads[i] = "rejected"

\* C27: every static server process that a run of the link check spawns is
\* sent a kill signal before the run ends, on every path: success, broken
\* links, an error during the audit, a spawned server that does not become
\* ready in time
C27_SpawnedServerIsKilled == (pc = "done" /\ spawned) => killed

\* C29: a result of checkLink that is not skipped has status 0 and an error
\* message exactly when no request of the call produced a response, and
\* otherwise carries the status of a response that was received; when HEAD
\* is answered with a status of 400 or more and the GET retry fails without
\* a response, the result is not ok and has the status of the HEAD response
ResponsesFor(k) ==
  { i \in DOMAIN probes : probes[i].url = k /\ probes[i].outcome.kind = "response" }

\* HEAD for k was answered with 400 or more and the GET that followed failed
HeadAnsweredGetFailed(k) ==
  \E i \in ProbesOf("HEAD", k) :
    /\ probes[i].outcome.kind = "response"
    /\ probes[i].outcome.status >= 400
    /\ HasGetAfter(i)
    /\ probes[i + 1].outcome.kind = "error"

C29_StatusZeroIffNoResponse ==
  \A k \in DOMAIN linkCache :
    ~linkCache[k].skipped =>
      /\ (linkCache[k].status = 0 /\ linkCache[k].error # "") <=> ResponsesFor(k) = {}
      /\ ResponsesFor(k) # {} =>
           /\ \E i \in ResponsesFor(k) : probes[i].outcome.status = linkCache[k].status
           /\ linkCache[k].error = ""
      /\ ResponsesFor(k) = {} => ~linkCache[k].ok
      /\ HeadAnsweredGetFailed(k) =>
           /\ ~linkCache[k].ok
           /\ linkCache[k].status >= 400
           /\ \E i \in ProbesOf("HEAD", k) : probes[i].outcome.status = linkCache[k].status

\* HEAD was answered 404, the GET retry failed, and the result is cached
C29_Witness ==
  \E k \in DOMAIN linkCache : HeadAnsweredGetFailed(k) /\ linkCache[k].status = 404

\* C30: getUrlsFromRemoteSitemap comes to its end whatever the sitemaps of
\* the remote site refer to, rings of sitemap indexes included: no sitemap
\* URL is fetched twice in a run, whichever of the three candidates leads
\* to it; no sitemap more than MaxDepth levels below a candidate is
\* fetched; and the array returned holds each page URL once, normalized,
\* in ascending order.
FetchedCalls == { i \in DOMAIN sitemapCalls : sitemapCalls[i].fetched }

C30_FetchedOnceWithinDepth ==
  /\ \A i, j \in FetchedCalls :
       sitemapCalls[i].sitemapUrl = sitemapCalls[j].sitemapUrl => i = j
  /\ \A i \in FetchedCalls : sitemapCalls[i].depth <= MaxDepth

C30_ResultSortedWithoutDuplicates ==
  rpc = "done" =>
    /\ \A i, j \in DOMAIN remoteUrls : i < j => StrLess(remoteUrls[i], remoteUrls[j])
    /\ \A i \in DOMAIN remoteUrls : normalizeUrl(remoteUrls[i]) = remoteUrls[i]
    /\ SeqToSet(remoteUrls) = SeqToSet(collected)

=============================================================================
